---- MODULE Spec2Model ----
(***************************************************************************)
(* Verification model of cargo-zigbuild.                                   *)
(*                                                                         *)
(* Part I   Mach-O load-command editor (src/macos/install_name_tool.rs)    *)
(* Part II  Target resolver ABI suffix (src/zig.rs, prepare_zig_linker)    *)
(* Part III Strings, target resolver flags, wrapper file names (src/zig.rs)*)
(* Part IV  Wrapper materializer run by concurrent processes (src/zig.rs)  *)
(* Part V   Toolchain environment applier (src/zig.rs, apply_command_env)  *)
(* Part VI  Linker argument filter (src/zig.rs, execute_compiler)          *)
(* Part VII Linker response files (src/zig.rs, process_linker_response_file)*)
(*                                                                         *)
(* Sizes and offsets are in bytes, as in the source.  A buffer is a        *)
(* sequence of 4-byte words: every size the editor handles (header sizes,  *)
(* cmdsize, the padded string sizes) is a multiple of 4.                   *)
(***************************************************************************)
EXTENDS Integers, Sequences, FiniteSets, TLC

VARIABLES
    disk,       \* content of the input file on disk (sequence of words)
    disk0,      \* content of the file when the current invocation started
    diskInit,   \* content of the file before the first invocation
    log,        \* finished invocations: <<[argv, result, before, after]>>
    pc,         \* position of the running invocation
    argv,       \* command line of the running invocation
    args,       \* parsed Args of the running invocation
    result,     \* result of the last finished invocation
    reads,      \* number of times an invocation has read the file
    data,       \* process_file: the whole file in memory
    arches,     \* process_file: fat arches still to process (reverse order)
    slice,      \* process_single_macho: the buffer being edited
    slice0,     \* that buffer as it was when process_single_macho started
    macho,      \* process_single_macho: load commands of the latest parse
    header,     \* process_single_macho: the local copy of the header
    todo,       \* process_single_macho: operations not yet applied
    pending,    \* replacement command built but not yet inserted
    edits,      \* number of remove/insert calls made on slice so far
    opsLeft,    \* operations the remaining invocations may still carry
    target,     \* prepare_zig_linker: the target string (sequence of chars)
    resolved,   \* prepare_zig_linker: its outcome
    cache,      \* the cache directory: path -> file or link
    procs,      \* the processes running prepare_zig_linker: pid -> record
    parent_env, \* apply_command_env: the environment of the process
    cmd_env,    \* apply_command_env: the variables staged on the command
    applier,    \* apply_command_env: its inputs and position
    cmd_args,   \* execute_compiler: the original argument list
    new_cmd_args, \* execute_compiler: the arguments passed to zig
    compiler,   \* execute_compiler: its context and position
    response_file \* the bytes of the linker response file rustc wrote

machoVars == <<disk, disk0, diskInit, log, pc, argv, args, result, reads, data,
               arches, slice, slice0, macho, header, todo, pending, edits,
               opsLeft>>
targetVars == <<target, resolved>>
wrapperVars == <<cache, procs>>
envVars == <<parent_env, cmd_env, applier>>
filterVars == <<cmd_args, new_cmd_args, compiler, response_file>>
zigVars == <<wrapperVars, envVars, filterVars>>
vars == <<machoVars, targetVars, zigVars>>

WrapperIdle == cache = <<>> /\ procs = <<>>
EnvIdle == parent_env = <<>> /\ cmd_env = <<>> /\ applier = <<>>
FilterIdle ==
    cmd_args = <<>> /\ new_cmd_args = <<>> /\ compiler = <<>> /\ response_file = <<>>
ZigIdle == WrapperIdle /\ EnvIdle /\ FilterIdle

(***************************************************************************)
(* Bounds                                                                  *)
(***************************************************************************)
MaxPad == 3      \* zero padding after the load commands, in 8-byte units
MaxData == 2     \* words of segment data after the padding
MaxOps == 2      \* operations carried by all invocations of one behaviour
MaxArgv == 4     \* tokens of a free-form command line
MaxSuffix == 4   \* characters after the triple in a free-form target string
MaxRuns == 2     \* runs of prepare_zig_linker, all processes together
MaxItems == 2    \* options (with their operands) passed to the compiler wrapper
MaxLineItems == 2   \* options (with their operands) in a linker response file
MaxInvocations == 2 \* runs of the compiler wrapper on the same response file

(***************************************************************************)
(* Part I.  Words                                                          *)
(***************************************************************************)
WORD == 4

Z == [t |-> "zero", v |-> 0, s |-> ""]
Tag(name) == [t |-> "tag", v |-> 0, s |-> name]
Num(n) == IF n = 0 THEN Z ELSE [t |-> "num", v |-> n, s |-> ""]
Dat(i) == [t |-> "data", v |-> i, s |-> ""]
\* the k-th word of the NUL-terminated string p; the empty string is one
\* word of NUL bytes
StrWord(p, k) == IF p = "" THEN Z ELSE [t |-> "str", v |-> k, s |-> p]

IsNum(w) == w.t \in {"num", "zero"}

ByteLen(buf) == WORD * Len(buf)
Zeroes(n) == [i \in 1..(n \div WORD) |-> Z]
\* buf[a..b) in bytes
Bytes(buf, a, b) == SubSeq(buf, (a \div WORD) + 1, b \div WORD)
\* Vec::drain(a..b)
Drain(buf, a, b) == Bytes(buf, 0, a) \o Bytes(buf, b, ByteLen(buf))
\* split_off(at); extend(words); extend(tail)
InsertAt(buf, at, words) == Bytes(buf, 0, at) \o words \o Bytes(buf, at, ByteLen(buf))
\* Vec::splice(a..b, words)
Splice(buf, a, b, words) == Bytes(buf, 0, a) \o words \o Bytes(buf, b, ByteLen(buf))

NextMultipleOf(n, m) == ((n + m - 1) \div m) * m

(***************************************************************************)
(* Header helpers                                                          *)
(***************************************************************************)
SIZEOF_HEADER_32 == 28
SIZEOF_HEADER_64 == 32
SIZEOF_RPATH_COMMAND == 12
SIZEOF_DYLIB_COMMAND == 24
SIZEOF_UUID_COMMAND == 24
SIZEOF_LC_HEADER == 8

\* ctx.container: "Big" for a 64-bit image, "Little" for a 32-bit one
CtxOfMagic(magic) == IF magic = "MH_MAGIC_64" THEN "Big" ELSE "Little"

header_size(ctx) == IF ctx = "Big" THEN SIZEOF_HEADER_64 ELSE SIZEOF_HEADER_32

align_to_ctx(size, ctx) ==
    IF ctx = "Big" THEN NextMultipleOf(size, 8) ELSE NextMultipleOf(size, 4)

\* the words of a serialized header (pwrite_with(header, 0, ctx))
HeaderWords(h) ==
    <<Tag(h.magic), Tag(h.cputype), Tag("cpusubtype"), Tag("filetype"),
      Num(h.ncmds), Num(h.sizeofcmds), Tag("flags")>>
    \o (IF CtxOfMagic(h.magic) = "Big" THEN <<Z>> ELSE <<>>)

PwriteHeader(buf, h) ==
    HeaderWords(h) \o Bytes(buf, header_size(CtxOfMagic(h.magic)), ByteLen(buf))

(***************************************************************************)
(* Command builders and readers                                            *)
(***************************************************************************)
\* CStr bytes of the path followed by NUL, padded to a multiple of 4
StrSize(p) == NextMultipleOf(Len(p) + 1, 4)
StrWords(p) == [k \in 1..(StrSize(p) \div WORD) |-> StrWord(p, k)]

\* vec![0u8; cmdsize] with the fixed part and the string written into it
PadTo(words, cmdsize) == words \o Zeroes(cmdsize - ByteLen(words))

build_rpath_command(path, ctx) ==
    LET cmdsize == align_to_ctx(SIZEOF_RPATH_COMMAND + StrSize(path), ctx)
    IN PadTo(<<Tag("LC_RPATH"), Num(cmdsize), Num(SIZEOF_RPATH_COMMAND)>>
             \o StrWords(path), cmdsize)

\* old_cmd: the words of the command being replaced (cmd, timestamp and the
\* two versions are carried over)
build_dylib_command(name, old_cmd, ctx) ==
    LET cmdsize == align_to_ctx(SIZEOF_DYLIB_COMMAND + StrSize(name), ctx)
    IN PadTo(<<old_cmd[1], Num(cmdsize), Num(SIZEOF_DYLIB_COMMAND),
               old_cmd[4], old_cmd[5], old_cmd[6]>>
             \o StrWords(name), cmdsize)

\* the NUL-terminated string that starts at byte `from` and ends before `to`
ReadCStr(buf, from, to) ==
    IF from >= to \/ to > ByteLen(buf) THEN ""
    ELSE LET w == buf[(from \div WORD) + 1]
         IN IF w.t = "str" /\ w.v = 1 THEN w.s ELSE ""

\* lc.body[3] is dylib.name / rpath.path: the offset of the string
read_dylib_name(buf, lc) ==
    ReadCStr(buf, lc.offset + lc.body[3].v, lc.offset + lc.cmdsize)

read_rpath_path(buf, lc) ==
    ReadCStr(buf, lc.offset + lc.body[3].v, lc.offset + lc.cmdsize)

(***************************************************************************)
(* MachO::parse and parse_magic_and_ctx (goblin), as far as the editor     *)
(* uses them: the header and the table of load commands                    *)
(***************************************************************************)
MachMagics == {"MH_MAGIC_64", "MH_MAGIC"}
DylibLoadCmds == {"LC_LOAD_DYLIB", "LC_LOAD_WEAK_DYLIB", "LC_REEXPORT_DYLIB",
                  "LC_LAZY_LOAD_DYLIB", "LC_LOAD_UPWARD_DYLIB"}
KnownCmds == DylibLoadCmds \cup {"LC_ID_DYLIB", "LC_RPATH", "LC_UUID"}

ParseFail == [ok |-> FALSE, header |-> [magic |-> "", cputype |-> "", ncmds |-> 0, sizeofcmds |-> 0],
              load_commands |-> <<>>]

RECURSIVE ParseCmds(_, _, _, _)
ParseCmds(buf, off, n, acc) ==
    IF n = 0 THEN [ok |-> TRUE, lcs |-> acc]
    ELSE IF off + SIZEOF_LC_HEADER > ByteLen(buf) THEN [ok |-> FALSE, lcs |-> <<>>]
    ELSE LET w1 == buf[(off \div WORD) + 1]
             w2 == buf[(off \div WORD) + 2]
         IN IF ~(w1.t = "tag" /\ w1.s \in KnownCmds /\ w2.t = "num"
                 /\ w2.v >= SIZEOF_LC_HEADER /\ off + w2.v <= ByteLen(buf))
            THEN [ok |-> FALSE, lcs |-> <<>>]
            ELSE ParseCmds(buf, off + w2.v, n - 1,
                           Append(acc, [offset |-> off, cmd |-> w1.s, cmdsize |-> w2.v,
                                        body |-> Bytes(buf, off, off + w2.v)]))

Parse(buf) ==
    IF Len(buf) = 0 \/ ~(buf[1].t = "tag" /\ buf[1].s \in MachMagics) THEN ParseFail
    ELSE LET ctx == CtxOfMagic(buf[1].s)
         IN IF ByteLen(buf) < header_size(ctx) \/ ~IsNum(buf[5]) \/ ~IsNum(buf[6])
            THEN ParseFail
            ELSE LET cmds == ParseCmds(buf, header_size(ctx), buf[5].v, <<>>)
                 IN IF ~cmds.ok THEN ParseFail
                    ELSE [ok |-> TRUE,
                          header |-> [magic |-> buf[1].s, cputype |-> buf[2].s,
                                      ncmds |-> buf[5].v, sizeofcmds |-> buf[6].v],
                          load_commands |-> cmds.lcs]

(***************************************************************************)
(* Load command manipulation                                               *)
(***************************************************************************)
remove_load_command(buffer, hdr, ctx, cmd_offset, cmdsize) ==
    LET drained == Drain(buffer, cmd_offset, cmd_offset + cmdsize)
        h == [hdr EXCEPT !.ncmds = @ - 1, !.sizeofcmds = @ - cmdsize]
        padding_offset == header_size(ctx) + h.sizeofcmds
        padded == InsertAt(drained, padding_offset, Zeroes(cmdsize))
    IN [buffer |-> PwriteHeader(padded, h), header |-> h]

\* mutant: the header is not written back into the buffer
insert_load_command_StaleHeader(buffer, hdr, ctx, offset, cmd_data) ==
    LET new_cmd_size == ByteLen(cmd_data)
        h == [hdr EXCEPT !.ncmds = @ + 1, !.sizeofcmds = @ + new_cmd_size]
        grown == InsertAt(buffer, offset, cmd_data)
        drain_start == header_size(ctx) + h.sizeofcmds
        drain_end == drain_start + new_cmd_size
        drained == IF drain_end <= ByteLen(grown)
                   THEN Drain(grown, drain_start, drain_end)
                   ELSE grown
    IN [buffer |-> drained, header |-> h]

\* mutant: the command is inserted after the last load command, not at offset
insert_load_command_AtEnd(buffer, hdr, ctx, offset, cmd_data) ==
    LET new_cmd_size == ByteLen(cmd_data)
        h == [hdr EXCEPT !.ncmds = @ + 1, !.sizeofcmds = @ + new_cmd_size]
        grown == InsertAt(buffer, header_size(ctx) + hdr.sizeofcmds, cmd_data)
        drain_start == header_size(ctx) + h.sizeofcmds
        drain_end == drain_start + new_cmd_size
        drained == IF drain_end <= ByteLen(grown)
                   THEN Drain(grown, drain_start, drain_end)
                   ELSE grown
    IN [buffer |-> PwriteHeader(drained, h), header |-> h]

insert_load_command(buffer, hdr, ctx, offset, cmd_data) ==
    LET new_cmd_size == ByteLen(cmd_data)
        h == [hdr EXCEPT !.ncmds = @ + 1, !.sizeofcmds = @ + new_cmd_size]
        grown == InsertAt(buffer, offset, cmd_data)
        drain_start == header_size(ctx) + h.sizeofcmds
        drain_end == drain_start + new_cmd_size
        drained == IF drain_end <= ByteLen(grown)
                   THEN Drain(grown, drain_start, drain_end)
                   ELSE grown
    IN [buffer |-> PwriteHeader(drained, h), header |-> h]

(***************************************************************************)
(* parse_args                                                              *)
(***************************************************************************)
\* the tokens of the model that start with '-'
DashTokens == {"-id", "-change", "-rpath", "-add_rpath", "-delete_rpath", "-x"}
StartsWithDash(tok) == tok \in DashTokens

ArgsDefault == [id |-> <<>>, changes |-> <<>>, rpaths |-> <<>>,
                add_rpaths |-> <<>>, delete_rpaths |-> <<>>, input |-> <<>>]

ParseErr(kind) == [err |-> kind, args |-> ArgsDefault]

\* mutant: a second input file replaces the first
TakeInputLastWins(parsed, tok) ==
    [err |-> "", args |-> [parsed EXCEPT !.input = <<tok>>]]

\* the arm for a token that is no option: the input file
TakeInput(parsed, tok) ==
    IF parsed.input # <<>> THEN ParseErr("MultipleInputFiles")
    ELSE [err |-> "", args |-> [parsed EXCEPT !.input = <<tok>>]]

\* the loop of parse_args; i is the 1-based index of the token looked at
RECURSIVE ParseLoop(_, _, _)
ParseLoop(a, i, parsed) ==
    IF i > Len(a)
    THEN IF parsed.input = <<>> THEN ParseErr("NoInputFile")
         ELSE [err |-> "", args |-> parsed]
    ELSE CASE a[i] = "-id" ->
                IF i + 1 > Len(a) THEN ParseErr("MissingArgument")
                ELSE ParseLoop(a, i + 2, [parsed EXCEPT !.id = <<a[i + 1]>>])
           [] a[i] = "-change" ->
                IF i + 2 > Len(a) THEN ParseErr("MissingArgument")
                ELSE ParseLoop(a, i + 3,
                               [parsed EXCEPT !.changes = Append(@, <<a[i + 1], a[i + 2]>>)])
           [] a[i] = "-rpath" ->
                IF i + 2 > Len(a) THEN ParseErr("MissingArgument")
                ELSE ParseLoop(a, i + 3,
                               [parsed EXCEPT !.rpaths = Append(@, <<a[i + 1], a[i + 2]>>)])
           [] a[i] = "-add_rpath" ->
                IF i + 1 > Len(a) THEN ParseErr("MissingArgument")
                ELSE ParseLoop(a, i + 2,
                               [parsed EXCEPT !.add_rpaths = Append(@, a[i + 1])])
           [] a[i] = "-delete_rpath" ->
                IF i + 1 > Len(a) THEN ParseErr("MissingArgument")
                ELSE ParseLoop(a, i + 2,
                               [parsed EXCEPT !.delete_rpaths = Append(@, a[i + 1])])
           [] OTHER ->
                IF StartsWithDash(a[i]) THEN ParseErr("UnknownOption")
                ELSE LET taken == TakeInput(parsed, a[i])
                     IN IF taken.err # "" THEN taken
                        ELSE ParseLoop(a, i + 1, taken.args)

parse_args(a) == ParseLoop(a, 1, ArgsDefault)

(***************************************************************************)
(* process_single_macho: the order in which it walks the parsed Args       *)
(***************************************************************************)
Op(kind, old, new) == [op |-> kind, old |-> old, new |-> new]

\* mutant: the -add_rpath loop runs before the -delete_rpath loop
OpsOfAddBeforeDelete(parsed) ==
    (IF parsed.id = <<>> THEN <<>> ELSE <<Op("id", "", parsed.id[1])>>)
    \o [k \in 1..Len(parsed.changes) |-> Op("change", parsed.changes[k][1], parsed.changes[k][2])]
    \o [k \in 1..Len(parsed.rpaths) |-> Op("rpath", parsed.rpaths[k][1], parsed.rpaths[k][2])]
    \o [k \in 1..Len(parsed.add_rpaths) |-> Op("add_rpath", "", parsed.add_rpaths[k])]
    \o [k \in 1..Len(parsed.delete_rpaths) |-> Op("delete_rpath", parsed.delete_rpaths[k], "")]

OpsOf(parsed) ==
    (IF parsed.id = <<>> THEN <<>> ELSE <<Op("id", "", parsed.id[1])>>)
    \o [k \in 1..Len(parsed.changes) |-> Op("change", parsed.changes[k][1], parsed.changes[k][2])]
    \o [k \in 1..Len(parsed.rpaths) |-> Op("rpath", parsed.rpaths[k][1], parsed.rpaths[k][2])]
    \o [k \in 1..Len(parsed.delete_rpaths) |-> Op("delete_rpath", parsed.delete_rpaths[k], "")]
    \o [k \in 1..Len(parsed.add_rpaths) |-> Op("add_rpath", "", parsed.add_rpaths[k])]

\* does the load command lc of buf match the operation?
Matches(buf, lc, op) ==
    CASE op.op = "id" -> lc.cmd = "LC_ID_DYLIB"
      [] op.op = "change" -> lc.cmd \in DylibLoadCmds /\ read_dylib_name(buf, lc) = op.old
      [] OTHER -> lc.cmd = "LC_RPATH" /\ read_rpath_path(buf, lc) = op.old

\* index of the first load command the loop stops at (0: none)
FirstMatch(buf, lcs, op) ==
    LET hits == {k \in 1..Len(lcs) : Matches(buf, lcs[k], op)}
    IN IF hits = {} THEN 0 ELSE CHOOSE k \in hits : \A j \in hits : k <= j

BuildFor(op, lc, ctx) ==
    IF op.op = "rpath" THEN build_rpath_command(op.new, ctx)
    ELSE build_dylib_command(op.new, lc.body, ctx)

(***************************************************************************)
(* Fat files (goblin MultiArch): magic, nfat_arch, then per architecture   *)
(* cputype, cpusubtype, offset, size, align                                *)
(***************************************************************************)
SIZEOF_FAT_HEADER == 8
SIZEOF_FAT_ARCH == 20

IsFat(buf) == Len(buf) > 0 /\ buf[1] = Tag("FAT_MAGIC")

FatArches(buf) ==
    [k \in 1..buf[2].v |->
        LET at == (SIZEOF_FAT_HEADER + (k - 1) * SIZEOF_FAT_ARCH) \div WORD
        IN [offset |-> buf[at + 3].v, size |-> buf[at + 4].v]]

Reverse(seq) == [k \in 1..Len(seq) |-> seq[Len(seq) + 1 - k]]

(***************************************************************************)
(* Input files: well-formed images as a linker writes them                 *)
(***************************************************************************)
FileName == "lib.dylib"
ShortPath == "/a"
LongPath == "/usr/lib/b"
Paths == {ShortPath, LongPath}

Cmd(kind, name) == [cmd |-> kind, name |-> name]

CmdWords(c, ctx) ==
    CASE c.cmd = "LC_RPATH" -> build_rpath_command(c.name, ctx)
      [] c.cmd = "LC_UUID" ->
            <<Tag("LC_UUID"), Num(SIZEOF_UUID_COMMAND),
              Tag("uuid"), Tag("uuid"), Tag("uuid"), Tag("uuid")>>
      [] OTHER ->
            build_dylib_command(c.name,
                <<Tag(c.cmd), Z, Z, Tag("timestamp"), Tag("current_version"),
                  Tag("compatibility_version")>>, ctx)

RECURSIVE Flatten(_)
Flatten(seqs) == IF seqs = <<>> THEN <<>> ELSE Head(seqs) \o Flatten(Tail(seqs))

\* header, load commands, pad*8 bytes of zero padding, ndata words of data
MakeImage(magic, cputype, cmds, pad, ndata) ==
    LET ctx == CtxOfMagic(magic)
        cw == Flatten([k \in 1..Len(cmds) |-> CmdWords(cmds[k], ctx)])
        h == [magic |-> magic, cputype |-> cputype, ncmds |-> Len(cmds),
              sizeofcmds |-> ByteLen(cw)]
    IN HeaderWords(h) \o cw \o Zeroes(8 * pad)
       \o [i \in 1..ndata |-> [t |-> "data", v |-> i, s |-> cputype]]

FatGap == 8

\* a universal file of two slices, FatGap zero bytes after each
MakeFat(s1, s2) ==
    LET off1 == SIZEOF_FAT_HEADER + 2 * SIZEOF_FAT_ARCH
        off2 == off1 + ByteLen(s1) + FatGap
    IN <<Tag("FAT_MAGIC"), Num(2),
         s1[2], Tag("cpusubtype"), Num(off1), Num(ByteLen(s1)), Num(3),
         s2[2], Tag("cpusubtype"), Num(off2), Num(ByteLen(s2)), Num(3)>>
       \o s1 \o Zeroes(FatGap) \o s2 \o Zeroes(FatGap)

DylibCmds == <<Cmd("LC_ID_DYLIB", ShortPath), Cmd("LC_LOAD_DYLIB", LongPath),
               Cmd("LC_RPATH", ShortPath)>>
ExeCmds == <<Cmd("LC_RPATH", LongPath), Cmd("LC_LOAD_DYLIB", ShortPath),
             Cmd("LC_RPATH", ShortPath)>>
BareCmds == <<Cmd("LC_UUID", "")>>

SingleImages ==
    {MakeImage(m, "arm64", c, pad, nd) :
        m \in MachMagics, c \in {DylibCmds, ExeCmds, BareCmds},
        pad \in 0..MaxPad, nd \in 0..MaxData}

FatImages ==
    {MakeFat(MakeImage("MH_MAGIC_64", "x86_64", c1, p1, nd),
             MakeImage("MH_MAGIC_64", "arm64", DylibCmds, p2, nd)) :
        c1 \in {DylibCmds, BareCmds}, p1 \in {0, MaxPad}, p2 \in {0, MaxPad},
        nd \in {0, MaxData}}

InputImages == SingleImages \cup FatImages

(***************************************************************************)
(* Command lines                                                           *)
(***************************************************************************)
DistinctPairs == {q \in Paths \X Paths : q[1] # q[2]}

CliOps ==
    {Op("id", "", n) : n \in Paths}
    \cup {Op("change", q[1], q[2]) : q \in DistinctPairs}
    \cup {Op("rpath", q[1], q[2]) : q \in DistinctPairs}
    \cup {Op("delete_rpath", o, "") : o \in Paths}
    \cup {Op("add_rpath", "", n) : n \in Paths}

ArgvOfOp(op) ==
    CASE op.op = "id" -> <<"-id", op.new>>
      [] op.op = "change" -> <<"-change", op.old, op.new>>
      [] op.op = "rpath" -> <<"-rpath", op.old, op.new>>
      [] op.op = "delete_rpath" -> <<"-delete_rpath", op.old>>
      [] OTHER -> <<"-add_rpath", op.new>>

\* the command line that carries the operations in the given order
ArgvOf(ops) == Flatten([k \in 1..Len(ops) |-> ArgvOfOp(ops[k])]) \o <<FileName>>

SeqsUpTo(S, n) == UNION {[1..k -> S] : k \in 0..n}

Tokens == {"-id", "-change", "-add_rpath", "-x", ShortPath, FileName}

(***************************************************************************)
(* The editor as a state machine.  pc:                                     *)
(*   start   no invocation yet            exit    the invocation returned  *)
(*   single  process_file, single image   slice   process_file, fat loop   *)
(*   ops     process_single_macho, between two operations                  *)
(*   insert  between remove_load_command and insert_load_command           *)
(*   write   process_file, before fs_err::write                            *)
(***************************************************************************)
NoHeader == ParseFail.header
NoPending == [offset |-> 0, cmd_data |-> <<>>]

sliceVars == <<slice, slice0, macho, header, todo, pending, edits>>

MachOInit(images, budget) ==
    /\ disk \in images
    /\ disk0 = disk
    /\ diskInit = disk
    /\ log = <<>>
    /\ pc = "start"
    /\ argv = <<>>
    /\ args = ArgsDefault
    /\ result = ""
    /\ reads = 0
    /\ data = <<>>
    /\ arches = <<>>
    /\ slice = <<>>
    /\ slice0 = <<>>
    /\ macho = <<>>
    /\ header = NoHeader
    /\ todo = <<>>
    /\ pending = NoPending
    /\ edits = 0
    /\ opsLeft = budget

\* the invocation returns r
Return(r) ==
    /\ pc' = "exit"
    /\ result' = r
    /\ log' = Append(log, [argv |-> argv, result |-> r])

\* execute: parse_args, then process_file up to the match on the magic
ExecuteWith(a) ==
    LET p == parse_args(a)
    IN /\ argv' = a
       /\ args' = p.args
       /\ disk0' = disk
       /\ slice' = <<>> /\ slice0' = <<>> /\ macho' = <<>> /\ header' = NoHeader
       /\ todo' = <<>> /\ pending' = NoPending /\ edits' = 0
       /\ UNCHANGED <<disk, diskInit>>
       /\ IF p.err # ""
          THEN /\ pc' = "exit" /\ result' = p.err
               /\ log' = Append(log, [argv |-> a, result |-> p.err])
               /\ data' = <<>> /\ arches' = <<>>
               /\ UNCHANGED reads
          ELSE IF p.args.input[1] # FileName
          THEN \* fs_err::read fails: no such file
               /\ pc' = "exit" /\ result' = "IoError"
               /\ log' = Append(log, [argv |-> a, result |-> "IoError"])
               /\ data' = <<>> /\ arches' = <<>>
               /\ UNCHANGED reads
          ELSE /\ data' = disk
               /\ reads' = reads + 1
               /\ arches' = IF IsFat(disk) THEN Reverse(FatArches(disk)) ELSE <<>>
               /\ pc' = IF IsFat(disk) THEN "slice" ELSE "single"
               /\ UNCHANGED <<result, log>>

\* an invocation that carries a list of operations on the input file
ExecuteOps ==
    /\ pc \in {"start", "exit"}
    /\ opsLeft > 0
    /\ \E ops \in SeqsUpTo(CliOps, opsLeft) \ {<<>>} :
          /\ ExecuteWith(ArgvOf(ops))
          /\ opsLeft' = opsLeft - Len(ops)
    /\ UNCHANGED <<targetVars, zigVars>>

\* an invocation with an arbitrary command line
ExecuteArgv ==
    /\ pc = "start"
    /\ \E a \in SeqsUpTo(Tokens, MaxArgv) : ExecuteWith(a)
    /\ UNCHANGED <<opsLeft, targetVars, zigVars>>

\* process_single_macho starts: on the whole file, or on the slice of the
\* next architecture (data[offset..offset + size].to_vec())
BeginSingleMacho ==
    /\ pc \in {"single", "slice"}
    /\ LET inRange == pc = "single"
                      \/ Head(arches).offset + Head(arches).size <= ByteLen(data)
           buffer == IF pc = "single" THEN data
                     ELSE IF inRange
                     THEN Bytes(data, Head(arches).offset,
                                Head(arches).offset + Head(arches).size)
                     ELSE <<>>
           parsed == Parse(buffer)
       IN IF ~inRange
          THEN Return("Panic") /\ UNCHANGED sliceVars
          ELSE IF ~parsed.ok
          THEN Return("ParseError") /\ UNCHANGED sliceVars
          ELSE /\ slice' = buffer
               /\ slice0' = buffer
               /\ macho' = parsed.load_commands
               /\ header' = parsed.header
               /\ todo' = OpsOf(args)
               /\ pending' = NoPending
               /\ edits' = 0
               /\ pc' = "ops"
               /\ UNCHANGED <<result, log>>
    /\ UNCHANGED <<disk, disk0, diskInit, argv, args, reads, data, arches,
                   opsLeft, targetVars, zigVars>>

\* -id, -change, -rpath, -delete_rpath: find the command, build the
\* replacement, remove the old command
RemoveStep ==
    /\ pc = "ops"
    /\ todo # <<>>
    /\ Head(todo).op # "add_rpath"
    /\ LET op == Head(todo)
           \* -id works on the parse made on entry; the other loops re-parse
           cur == IF op.op = "id"
                  THEN [ok |-> TRUE, header |-> header, load_commands |-> macho]
                  ELSE Parse(slice)
           ctx == CtxOfMagic(cur.header.magic)
           k == FirstMatch(slice, cur.load_commands, op)
       IN IF ~cur.ok
          THEN Return("ParseError") /\ UNCHANGED sliceVars
          ELSE IF k = 0
          THEN /\ Return("LoadCommandNotFound")
               /\ macho' = cur.load_commands
               /\ header' = cur.header
               /\ UNCHANGED <<slice, slice0, todo, pending, edits>>
          ELSE LET lc == cur.load_commands[k]
                   r == remove_load_command(slice, cur.header, ctx, lc.offset, lc.cmdsize)
               IN /\ slice' = r.buffer
                  /\ header' = r.header
                  /\ macho' = cur.load_commands
                  /\ edits' = edits + 1
                  /\ IF op.op = "delete_rpath"
                     THEN /\ todo' = Tail(todo)
                          /\ pending' = NoPending
                          /\ pc' = "ops"
                     ELSE /\ todo' = todo
                          /\ pending' = [offset |-> lc.offset,
                                         cmd_data |-> BuildFor(op, lc, ctx)]
                          /\ pc' = "insert"
                  /\ UNCHANGED <<slice0, result, log>>
    /\ UNCHANGED <<disk, disk0, diskInit, argv, args, reads, data, arches,
                   opsLeft, targetVars, zigVars>>

\* -id, -change, -rpath: insert the replacement where the old command was
InsertStep ==
    /\ pc = "insert"
    /\ LET r == insert_load_command(slice, header, CtxOfMagic(header.magic),
                                    pending.offset, pending.cmd_data)
       IN /\ slice' = r.buffer
          /\ header' = r.header
    /\ edits' = edits + 1
    /\ todo' = Tail(todo)
    /\ pending' = NoPending
    /\ pc' = "ops"
    /\ UNCHANGED <<disk, disk0, diskInit, log, argv, args, result, reads, data,
                   arches, slice0, macho, opsLeft, targetVars, zigVars>>

\* -add_rpath: append the new command after the last load command
AddRpathStep ==
    /\ pc = "ops"
    /\ todo # <<>>
    /\ Head(todo).op = "add_rpath"
    /\ LET cur == Parse(slice)
           ctx == CtxOfMagic(cur.header.magic)
           insert_offset == header_size(ctx) + cur.header.sizeofcmds
           r == insert_load_command(slice, cur.header, ctx, insert_offset,
                                    build_rpath_command(Head(todo).new, ctx))
       IN IF ~cur.ok
          THEN Return("ParseError") /\ UNCHANGED sliceVars
          ELSE /\ slice' = r.buffer
               /\ header' = r.header
               /\ macho' = cur.load_commands
               /\ edits' = edits + 1
               /\ todo' = Tail(todo)
               /\ pc' = "ops"
               /\ UNCHANGED <<slice0, pending, result, log>>
    /\ UNCHANGED <<disk, disk0, diskInit, argv, args, reads, data, arches,
                   opsLeft, targetVars, zigVars>>

\* mutant: the file is written each time a slice has been spliced back
FinishSingleMachoPersisting ==
    /\ pc = "ops"
    /\ todo = <<>>
    /\ IF arches = <<>>
       THEN /\ data' = slice
            /\ arches' = arches
            /\ pc' = "write"
       ELSE /\ data' = Splice(data, Head(arches).offset,
                              Head(arches).offset + Head(arches).size, slice)
            /\ arches' = Tail(arches)
            /\ pc' = IF Tail(arches) = <<>> THEN "write" ELSE "slice"
    /\ disk' = data'
    /\ UNCHANGED <<disk0, diskInit, log, argv, args, result, reads,
                   sliceVars, opsLeft, targetVars, zigVars>>

\* process_single_macho returns Ok: the single image is the file; a slice
\* is spliced back (data.splice(offset..offset + size, slice))
FinishSingleMacho ==
    /\ pc = "ops"
    /\ todo = <<>>
    /\ IF arches = <<>>
       THEN /\ data' = slice
            /\ arches' = arches
            /\ pc' = "write"
       ELSE /\ data' = Splice(data, Head(arches).offset,
                              Head(arches).offset + Head(arches).size, slice)
            /\ arches' = Tail(arches)
            /\ pc' = IF Tail(arches) = <<>> THEN "write" ELSE "slice"
    /\ UNCHANGED <<disk, disk0, diskInit, log, argv, args, result, reads,
                   sliceVars, opsLeft, targetVars, zigVars>>

\* fs_err::write(path, &data)
WriteFile ==
    /\ pc = "write"
    /\ disk' = data
    /\ Return("Ok")
    /\ UNCHANGED <<disk0, diskInit, argv, args, reads, data, arches, sliceVars,
                   opsLeft, targetVars, zigVars>>

EditSteps ==
    \/ BeginSingleMacho
    \/ RemoveStep
    \/ InsertStep
    \/ AddRpathStep
    \/ FinishSingleMacho
    \/ WriteFile

TargetIdle == target = <<>> /\ resolved = "none"

InitMachO == MachOInit(InputImages, MaxOps) /\ TargetIdle /\ ZigIdle
NextMachO == ExecuteOps \/ EditSteps
SpecMachO == InitMachO /\ [][NextMachO]_vars

ArgvImages ==
    {MakeImage("MH_MAGIC_64", "arm64", DylibCmds, MaxPad, MaxData),
     MakeFat(MakeImage("MH_MAGIC_64", "x86_64", DylibCmds, MaxPad, MaxData),
             MakeImage("MH_MAGIC_64", "arm64", DylibCmds, MaxPad, MaxData))}

InitArgs == MachOInit(ArgvImages, 0) /\ TargetIdle /\ ZigIdle
NextArgs == ExecuteArgv \/ EditSteps
SpecArgs == InitArgs /\ [][NextArgs]_vars

(***************************************************************************)
(* Part II.  prepare_zig_linker: the ABI suffix of the target string       *)
(*                                                                         *)
(* A target string is a sequence of characters; the triple in front of it  *)
(* is kept as one element (it holds no '.').                               *)
(***************************************************************************)
Digits == {"0", "1", "2", "3", "4", "5", "6", "7", "8", "9"}

is_ascii_digit(c) == c \in Digits

\* str::split_once('.'): the text before and after the first '.'
IndexOfDot(str) ==
    LET dots == {i \in 1..Len(str) : str[i] = "."}
    IN IF dots = {} THEN 0 ELSE CHOOSE i \in dots : \A j \in dots : i <= j

SplitOnce(str) ==
    LET d == IndexOfDot(str)
    IN IF d = 0 THEN [found |-> FALSE, x |-> str, y |-> <<>>]
       ELSE [found |-> TRUE, x |-> SubSeq(str, 1, d - 1),
             y |-> SubSeq(str, d + 1, Len(str))]

AllDigits(str) == \A i \in 1..Len(str) : is_ascii_digit(str[i])

\* mutant: the second component may be empty
SuffixAcceptedEmptyMinor(abi_suffix) ==
    LET parts == SplitOnce(abi_suffix)
    IN /\ parts.found
       /\ parts.x # <<>> /\ AllDigits(parts.x)
       /\ AllDigits(parts.y)

\* abi_suffix.split_once('.').filter(|(x, y)| ...).is_some()
SuffixAccepted(abi_suffix) ==
    LET parts == SplitOnce(abi_suffix)
    IN /\ parts.found
       /\ parts.x # <<>> /\ AllDigits(parts.x)
       /\ parts.y # <<>> /\ AllDigits(parts.y)

\* str::parse::<usize>() of a string of digits succeeds when the value fits
UsizeMaxDigits == <<"1", "8", "4", "4", "6", "7", "4", "4", "0", "7",
                    "3", "7", "0", "9", "5", "5", "1", "6", "1", "5">>

RECURSIVE StripZeros(_)
StripZeros(str) ==
    IF str # <<>> /\ Head(str) = "0" THEN StripZeros(Tail(str)) ELSE str

DigitVal(c) == CHOOSE n \in 0..9 : ToString(n) = c

\* digit strings of equal length: a <= b
RECURSIVE DigitsLeq(_, _)
DigitsLeq(a, b) ==
    IF a = <<>> THEN TRUE
    ELSE IF DigitVal(Head(a)) # DigitVal(Head(b))
    THEN DigitVal(Head(a)) < DigitVal(Head(b))
    ELSE DigitsLeq(Tail(a), Tail(b))

ParsesAsUsize(str) ==
    LET d == StripZeros(str)
    IN /\ str # <<>>
       /\ AllDigits(str)
       /\ \/ Len(d) < Len(UsizeMaxDigits)
          \/ Len(d) = Len(UsizeMaxDigits) /\ DigitsLeq(d, UsizeMaxDigits)

\* the triples of the model and what Triple::parse and the match on the
\* operating system make of them
Triples == {"x86_64-unknown-linux-gnu", "aarch64-unknown-linux-musl",
            "aarch64-apple-darwin", "x86_64-pc-windows-gnu",
            "x86_64-unknown-netbsd"}
SupportedTriples == Triples \ {"x86_64-unknown-netbsd"}
GlibcTriples == {"x86_64-unknown-linux-gnu"}

\* the outcome of prepare_zig_linker as far as the target string decides it
prepare_zig_linker(tgt) ==
    LET split == SplitOnce(tgt)
        rust_target == split.x
        abi_suffix == split.y
    IN IF abi_suffix # <<>> /\ ~SuffixAccepted(abi_suffix) THEN "MalformedTarget"
       ELSE IF ~(Len(rust_target) = 1 /\ rust_target[1] \in SupportedTriples)
       THEN "UnsupportedTarget"
       ELSE IF rust_target[1] \in GlibcTriples /\ abi_suffix # <<>>
               /\ ~(ParsesAsUsize(SplitOnce(abi_suffix).x)
                    /\ ParsesAsUsize(SplitOnce(abi_suffix).y))
       THEN "ParseIntError"
       ELSE "Ok"

SuffixChars == {"2", "7", ".", "x"}

\* digit strings around the largest usize
LongDigits ==
    {UsizeMaxDigits,
     SubSeq(UsizeMaxDigits, 1, 19) \o <<"6">>,
     <<"0">> \o UsizeMaxDigits,
     UsizeMaxDigits \o <<"0">>}

TargetStrings ==
    {<<t>> : t \in Triples}
    \cup {<<t, ".">> \o sfx : t \in Triples, sfx \in SeqsUpTo(SuffixChars, MaxSuffix)}
    \cup {<<t, ".", "2", ".">> \o n : t \in Triples, n \in LongDigits}
    \cup {<<t, ".">> \o n \o <<".", "7">> : t \in Triples, n \in LongDigits}

MachOIdle == MachOInit({<<>>}, 0)

Resolve ==
    /\ resolved = "none"
    /\ \E tgt \in TargetStrings :
          /\ target' = tgt
          /\ resolved' = prepare_zig_linker(tgt)
    /\ UNCHANGED <<machoVars, zigVars>>

InitTarget == MachOIdle /\ TargetIdle /\ ZigIdle
NextTarget == Resolve
SpecTarget == InitTarget /\ [][NextTarget]_vars

(***************************************************************************)
(* Properties of the Mach-O editor                                         *)
(***************************************************************************)
\* the load commands physically present in buf: the run of well-formed
\* commands that starts at byte off (independent of the header's counts)
RECURSIVE PresentCmds(_, _)
PresentCmds(buf, off) ==
    IF off + SIZEOF_LC_HEADER > ByteLen(buf) THEN <<>>
    ELSE LET w1 == buf[(off \div WORD) + 1]
             w2 == buf[(off \div WORD) + 2]
         IN IF w1.t = "tag" /\ w1.s \in KnownCmds /\ w2.t = "num"
               /\ w2.v >= SIZEOF_LC_HEADER /\ off + w2.v <= ByteLen(buf)
            THEN <<[offset |-> off, cmd |-> w1.s, cmdsize |-> w2.v,
                    body |-> Bytes(buf, off, off + w2.v)]>>
                 \o PresentCmds(buf, off + w2.v)
            ELSE <<>>

RECURSIVE SumSizes(_)
SumSizes(lcs) == IF lcs = <<>> THEN 0 ELSE Head(lcs).cmdsize + SumSizes(Tail(lcs))

\* the header stored at offset 0 of buf counts exactly the commands present
StoredHeaderMatches(buf) ==
    /\ Len(buf) >= 6
    /\ buf[1].t = "tag" /\ buf[1].s \in MachMagics
    /\ LET present == PresentCmds(buf, header_size(CtxOfMagic(buf[1].s)))
       IN /\ buf[5] = Num(Len(present))
          /\ buf[6] = Num(SumSizes(present))

InProcess == pc \in {"ops", "insert", "write", "exit"}

\* C1: after every remove_load_command / insert_load_command, and after any
\* sequence of them, ncmds is the number of load commands present in the
\* buffer, sizeofcmds the sum of their cmdsize, and the header stored at
\* offset 0 of the buffer carries the values of the editor's header
C1_HeaderMatchesCommands ==
    /\ (InProcess /\ edits > 0) =>
          /\ StoredHeaderMatches(slice)
          /\ slice[5] = Num(header.ncmds)
          /\ slice[6] = Num(header.sizeofcmds)
    /\ (Len(disk) > 0 /\ ~IsFat(disk)) => StoredHeaderMatches(disk)

\* a change (remove, insert) followed by an add has been applied, and the
\* number of commands differs from the one the image started with
C1_Witness ==
    /\ pc = "ops" /\ edits >= 3
    /\ slice[5] # slice0[5]
    /\ slice[6] # slice0[6]

\* C2: every edit leaves the length of the buffer, of every slice and of
\* the file unchanged
C2_LengthPreserved ==
    /\ Len(slice) = Len(slice0)
    /\ Len(disk) = Len(diskInit)

\* C3: every word of segment data keeps its offset and its value
DataKept(before, after) ==
    \A i \in 1..Len(before) :
        before[i].t = "data" => (i <= Len(after) /\ after[i] = before[i])

C3_DataUntouched ==
    /\ DataKept(slice0, slice)
    /\ DataKept(diskInit, disk)

\* the images of a file: the file itself, or the slices its fat header names
ImagesOf(file) ==
    IF IsFat(file)
    THEN [k \in 1..Len(FatArches(file)) |->
             IF FatArches(file)[k].offset + FatArches(file)[k].size <= ByteLen(file)
             THEN Bytes(file, FatArches(file)[k].offset,
                        FatArches(file)[k].offset + FatArches(file)[k].size)
             ELSE <<>>]
    ELSE <<file>>

NameIn(body) == IF Len(body) >= 4 /\ body[4].t = "str" /\ body[4].v = 1 THEN body[4].s ELSE ""

RpathsOf(image) ==
    {NameIn(Parse(image).load_commands[k].body) :
        k \in {j \in 1..Len(Parse(image).load_commands) :
                 Parse(image).load_commands[j].cmd = "LC_RPATH"}}

NcmdsOf(image) == IF Len(image) >= 5 THEN image[5].v ELSE 0

\* C4: Add-Runpath(P) then Delete-Runpath(P) restores the set of runpaths,
\* the file size and ncmds
C4_AddDeleteRoundTrip ==
    \A p \in Paths :
        (/\ pc = "exit"
         /\ log = <<[argv |-> <<"-add_rpath", p, FileName>>, result |-> "Ok"],
                    [argv |-> <<"-delete_rpath", p, FileName>>, result |-> "Ok"]>>)
        => /\ Len(disk) = Len(diskInit)
           /\ \A k \in 1..Len(ImagesOf(diskInit)) :
                 /\ RpathsOf(ImagesOf(disk)[k]) = RpathsOf(ImagesOf(diskInit)[k])
                 /\ NcmdsOf(ImagesOf(disk)[k]) = NcmdsOf(ImagesOf(diskInit)[k])

\* C5: unless the invocation has returned Ok, the file on disk is what it
\* was when the invocation started
C5_FailureLeavesFile ==
    ~(pc = "exit" /\ result = "Ok") => disk = disk0

\* an operation failed after other slices had been edited and spliced back
C5_Witness ==
    /\ pc = "exit" /\ result = "LoadCommandNotFound"
    /\ data # disk0
    /\ disk = disk0

(***************************************************************************)
(* One operation applied to an image taken alone, and a list of them       *)
(* applied one at a time                                                   *)
(***************************************************************************)
Failed == [ok |-> FALSE, buffer |-> <<>>]

ApplyOp(buf, op) ==
    LET cur == Parse(buf)
        ctx == CtxOfMagic(cur.header.magic)
        k == FirstMatch(buf, cur.load_commands, op)
    IN IF ~cur.ok THEN Failed
       ELSE IF op.op = "add_rpath"
       THEN [ok |-> TRUE,
             buffer |-> insert_load_command(buf, cur.header, ctx,
                            header_size(ctx) + cur.header.sizeofcmds,
                            build_rpath_command(op.new, ctx)).buffer]
       ELSE IF k = 0 THEN Failed
       ELSE LET lc == cur.load_commands[k]
                r == remove_load_command(buf, cur.header, ctx, lc.offset, lc.cmdsize)
            IN [ok |-> TRUE,
                buffer |-> IF op.op = "delete_rpath" THEN r.buffer
                           ELSE insert_load_command(r.buffer, r.header, ctx, lc.offset,
                                                    BuildFor(op, lc, ctx)).buffer]

RECURSIVE ApplyAll(_, _)
ApplyAll(buf, ops) ==
    IF ops = <<>> THEN [ok |-> TRUE, buffer |-> buf]
    ELSE LET first == ApplyOp(buf, Head(ops))
         IN IF first.ok THEN ApplyAll(first.buffer, Tail(ops)) ELSE Failed

\* the operations of a well-formed command line, in the order they appear
RECURSIVE CliOrder(_)
CliOrder(a) ==
    IF a = <<>> \/ ~StartsWithDash(Head(a)) THEN <<>>
    ELSE CASE Head(a) = "-id" -> <<Op("id", "", a[2])>> \o CliOrder(SubSeq(a, 3, Len(a)))
           [] Head(a) = "-change" ->
                <<Op("change", a[2], a[3])>> \o CliOrder(SubSeq(a, 4, Len(a)))
           [] Head(a) = "-rpath" ->
                <<Op("rpath", a[2], a[3])>> \o CliOrder(SubSeq(a, 4, Len(a)))
           [] Head(a) = "-delete_rpath" ->
                <<Op("delete_rpath", a[2], "")>> \o CliOrder(SubSeq(a, 3, Len(a)))
           [] Head(a) = "-add_rpath" ->
                <<Op("add_rpath", "", a[2])>> \o CliOrder(SubSeq(a, 3, Len(a)))
           [] OTHER -> <<>>

OfKind(ops, kind) == SelectSeq(ops, LAMBDA o : o.op = kind)

\* by kind: the last -id, then every -change, -rpath, -delete_rpath and
\* -add_rpath, each kind in command-line order
KindOrder(ops) ==
    (IF OfKind(ops, "id") = <<>> THEN <<>>
     ELSE <<OfKind(ops, "id")[Len(OfKind(ops, "id"))]>>)
    \o OfKind(ops, "change") \o OfKind(ops, "rpath")
    \o OfKind(ops, "delete_rpath") \o OfKind(ops, "add_rpath")

\* process_single_macho has returned Ok / an operation was not found
AllApplied == pc = "ops" /\ todo = <<>>
NotFound == pc = "exit" /\ result = "LoadCommandNotFound"

SameAsOneAtATime(ops) ==
    /\ AllApplied => (ApplyAll(slice0, ops).ok /\ ApplyAll(slice0, ops).buffer = slice)
    /\ NotFound => ~ApplyAll(slice0, ops).ok

\* C6 as stated: an invocation has the effect of its operations applied one
\* at a time in command-line order
C6_CommandLineOrder == SameAsOneAtATime(CliOrder(argv))

\* C6 amended: an invocation has, on every image it edits, the effect of its
\* operations applied one at a time in the order of their kinds (the last
\* -id, then -change, -rpath, -delete_rpath, -add_rpath), command-line order
\* deciding only among operations of one kind
C6_KindOrder == SameAsOneAtATime(KindOrder(CliOrder(argv)))

\* an invocation whose command line puts -add_rpath before another kind has
\* applied all its operations, with another result than command-line order
C6_Witness ==
    /\ AllApplied
    /\ KindOrder(CliOrder(argv)) # CliOrder(argv)
    /\ ApplyAll(slice0, CliOrder(argv)).ok
    /\ ApplyAll(slice0, CliOrder(argv)).buffer # slice

\* C7: after a successful invocation on a fat file, every slice the fat
\* header names is the slice edited as a single-architecture image, and
\* with -id every slice reports the new id
IdOf(image) ==
    LET lcs == Parse(image).load_commands
        ids == {k \in 1..Len(lcs) : lcs[k].cmd = "LC_ID_DYLIB"}
    IN IF ids = {} THEN "" ELSE NameIn(lcs[CHOOSE k \in ids : TRUE].body)

C7_FatSlices ==
    (pc = "exit" /\ result = "Ok" /\ IsFat(disk0)) =>
        \A k \in 1..Len(ImagesOf(disk0)) :
            /\ ApplyAll(ImagesOf(disk0)[k], KindOrder(CliOrder(argv))).buffer
                  = ImagesOf(disk)[k]
            /\ args.id # <<>> => IdOf(ImagesOf(disk)[k]) = args.id[1]

\* the operation that process_single_macho applied last
Applied == Len(OpsOf(args)) - Len(todo)
LastOp == OpsOf(args)[Applied]

\* C8: Change-Runpath(old, new) replaces the first runpath equal to old by
\* new at the same position of the command table and leaves every other
\* command as it was; with no runpath equal to old it fails, not found
C8_ChangeRpath ==
    /\ (pc = "ops" /\ Applied > 0 /\ LastOp.op = "rpath") =>
          LET before == macho
              after == Parse(slice).load_commands
              olds == {k \in 1..Len(before) :
                         before[k].cmd = "LC_RPATH" /\ NameIn(before[k].body) = LastOp.old}
          IN /\ olds # {}
             /\ Len(after) = Len(before)
             /\ \A k \in 1..Len(before) :
                   IF k \in olds /\ \A j \in olds : k <= j
                   THEN after[k].cmd = "LC_RPATH" /\ NameIn(after[k].body) = LastOp.new
                   ELSE after[k].cmd = before[k].cmd /\ after[k].body = before[k].body
    /\ (pc = "exit" /\ todo # <<>> /\ Head(todo).op = "rpath") =>
          /\ result = "LoadCommandNotFound"
          /\ Head(todo).old \notin RpathsOf(slice)

\* a runpath that is not the only one has been changed
C8_Witness ==
    /\ pc = "ops" /\ Applied > 0 /\ LastOp.op = "rpath"
    /\ Cardinality({k \in 1..Len(macho) : macho[k].cmd = "LC_RPATH"}) = 2
    /\ Len(slice) = Len(slice0)

(***************************************************************************)
(* Properties of parse_args                                                *)
(***************************************************************************)
ParseErrors == {"MissingArgument", "UnknownOption", "MultipleInputFiles", "NoInputFile"}

\* a reading of the whole command line that does not stop at an error:
\* the number of input-file tokens (tokens that are neither an option nor
\* the argument of a known option), and whether an option is unknown or
\* lacks an argument
RECURSIVE Reading(_)
Reading(a) ==
    IF a = <<>> THEN [inputs |-> 0, misuse |-> FALSE]
    ELSE LET arity == CASE Head(a) \in {"-id", "-add_rpath", "-delete_rpath"} -> 1
                        [] Head(a) \in {"-change", "-rpath"} -> 2
                        [] OTHER -> 0
             rest == Reading(SubSeq(a, arity + 2, Len(a)))
         IN IF arity > 0
            THEN IF Len(a) < arity + 1 THEN [inputs |-> 0, misuse |-> TRUE] ELSE rest
            ELSE IF StartsWithDash(Head(a)) THEN [rest EXCEPT !.misuse = TRUE]
            ELSE [rest EXCEPT !.inputs = @ + 1]

Rejected == pc = "exit" /\ result \in ParseErrors

\* C9 as stated: accepted only with exactly one input file; none gives the
\* no-input-file error, a second one the multiple-input-files error, and
\* then no file is read or modified
C9_ExactlyOneInput ==
    pc # "start" =>
        /\ ~Rejected => Reading(argv).inputs = 1
        /\ Reading(argv).inputs = 0 => (Rejected /\ result = "NoInputFile")
        /\ Reading(argv).inputs >= 2 => (Rejected /\ result = "MultipleInputFiles")
        /\ Reading(argv).inputs # 1 => (reads = 0 /\ disk = diskInit)

\* C9 amended: accepted only with exactly one input file; with none, or with
\* a second one, the invocation is rejected: with the no-input-file
\* (multiple-input-files) error when every option is known and has its
\* arguments, else with that error or the unknown-option / missing-argument
\* error; a rejected invocation reads and modifies no file
C9_ExactlyOneInputOrMisuse ==
    pc # "start" =>
        /\ ~Rejected => (Reading(argv).inputs = 1 /\ ~Reading(argv).misuse)
        /\ Reading(argv).inputs = 0 =>
              /\ Rejected
              /\ IF Reading(argv).misuse
                 THEN result \in {"UnknownOption", "MissingArgument"}
                 ELSE result = "NoInputFile"
        /\ Reading(argv).inputs >= 2 =>
              /\ Rejected
              /\ IF Reading(argv).misuse
                 THEN result \in {"MultipleInputFiles", "UnknownOption", "MissingArgument"}
                 ELSE result = "MultipleInputFiles"
        /\ Rejected => (reads = 0 /\ disk = diskInit /\ data = <<>>)

\* a command line with an operation and two input files has been rejected
C9_Witness ==
    /\ Rejected /\ result = "MultipleInputFiles"
    /\ Reading(argv).inputs = 2 /\ ~Reading(argv).misuse
    /\ Head(argv) = "-id"
    /\ reads = 0

(***************************************************************************)
(* Properties of the ABI suffix                                            *)
(***************************************************************************)
\* the '.'-separated components of a string
RECURSIVE Components(_)
Components(str) ==
    IF \A i \in 1..Len(str) : str[i] # "." THEN <<str>>
    ELSE LET d == CHOOSE i \in 1..Len(str) :
                     str[i] = "." /\ \A j \in 1..(i - 1) : str[j] # "."
         IN <<SubSeq(str, 1, d - 1)>> \o Components(SubSeq(str, d + 1, Len(str)))

\* N.M with N and M non-empty strings of ASCII digits
IsMajorMinor(str) ==
    /\ Len(Components(str)) = 2
    /\ \A k \in 1..2 : Components(str)[k] # <<>> /\ AllDigits(Components(str)[k])

HasDot(str) == \E i \in 1..Len(str) : str[i] = "."
AfterFirstDot(str) ==
    SubSeq(str, 1 + (CHOOSE i \in 1..Len(str) :
                        str[i] = "." /\ \A j \in 1..(i - 1) : str[j] # "."), Len(str))

Suffixed == resolved # "none" /\ target[1] \in SupportedTriples /\ HasDot(target)

\* C10 as stated: with a '.', the target is accepted exactly when the text
\* after the first '.' is N.M, and any other text is a malformed suffix
C10_SuffixExactlyMajorMinor ==
    Suffixed => IF IsMajorMinor(AfterFirstDot(target)) THEN resolved = "Ok"
                ELSE resolved = "MalformedTarget"

\* C10 amended: with a '.', the target is accepted exactly when the text
\* after the first '.' is empty (no suffix) or is N.M with, on a glibc
\* target, N and M no larger than usize::MAX; any other non-empty text is a
\* malformed suffix, and an N.M that does not fit is an integer parse error
C10_SuffixEmptyOrMajorMinor ==
    Suffixed =>
        LET text == AfterFirstDot(target)
        IN IF text = <<>> THEN resolved = "Ok"
           ELSE IF ~IsMajorMinor(text) THEN resolved = "MalformedTarget"
           ELSE IF target[1] \in GlibcTriples
                   /\ \E k \in 1..2 : ~ParsesAsUsize(Components(text)[k])
           THEN resolved = "ParseIntError"
           ELSE resolved = "Ok"

\* a glibc target with a suffix N.M has been accepted
C10_Witness ==
    /\ resolved = "Ok"
    /\ target[1] \in GlibcTriples
    /\ HasDot(target)
    /\ IsMajorMinor(AfterFirstDot(target))

(***************************************************************************)
(* Part III.  Strings, the flags the target resolver bakes, and the names  *)
(* of the wrapper scripts (src/zig.rs)                                     *)
(*                                                                         *)
(* Strings are TLA+ strings; a character is a string of length 1.          *)
(***************************************************************************)
Chars(s) == [i \in 1..Len(s) |-> SubSeq(s, i, i)]

RECURSIVE JoinChars(_)
JoinChars(cs) == IF cs = <<>> THEN "" ELSE Head(cs) \o JoinChars(Tail(cs))

starts_with(s, p) == Len(s) >= Len(p) /\ SubSeq(s, 1, Len(p)) = p
ends_with(s, p) == Len(s) >= Len(p) /\ SubSeq(s, Len(s) - Len(p) + 1, Len(s)) = p
contains(s, p) == \E i \in 1..(Len(s) - Len(p) + 1) : SubSeq(s, i, i + Len(p) - 1) = p

\* str::find(c): index of the first c in s, 0 when there is none
find(s, c) ==
    LET at == {i \in 1..Len(s) : SubSeq(s, i, i) = c}
    IN IF at = {} THEN 0 ELSE CHOOSE i \in at : \A j \in at : i <= j

\* str::split_once(c): s cut at index d, the place of the first c
SplitAt(s, d) ==
    IF d = 0 THEN [found |-> FALSE, x |-> s, y |-> ""]
    ELSE [found |-> TRUE, x |-> SubSeq(s, 1, d - 1), y |-> SubSeq(s, d + 1, Len(s))]
split_once(s, c) == SplitAt(s, find(s, c))

\* str::split(c)
RECURSIVE split(_, _)
SplitRest(first, c) ==
    IF first.found THEN <<first.x>> \o split(first.y, c) ELSE <<first.x>>
split(s, c) == SplitRest(split_once(s, c), c)

\* str::replace(from, to) for a single character from
replace(s, from, to) ==
    JoinChars([i \in 1..Len(s) |-> IF SubSeq(s, i, i) = from THEN to ELSE SubSeq(s, i, i)])

\* str::trim_end_matches(c)
RECURSIVE trim_end_matches(_, _)
trim_end_matches(s, c) ==
    IF Len(s) > 0 /\ SubSeq(s, Len(s), Len(s)) = c
    THEN trim_end_matches(SubSeq(s, 1, Len(s) - 1), c)
    ELSE s

LowerCase == "abcdefghijklmnopqrstuvwxyz"
UpperCase == "ABCDEFGHIJKLMNOPQRSTUVWXYZ"

\* str::to_uppercase on ASCII text
to_uppercase(s) ==
    JoinChars([i \in 1..Len(s) |->
        IF find(LowerCase, SubSeq(s, i, i)) = 0 THEN SubSeq(s, i, i)
        ELSE SubSeq(UpperCase, find(LowerCase, SubSeq(s, i, i)),
                    find(LowerCase, SubSeq(s, i, i)))])

\* the printable ASCII characters in code order: ' ' (32) to '_' (95), and
\* 'a' (97) to '~' (126)
AsciiUpTo95 ==
    " !\"#$%&'()*+,-./0123456789:;<=>?@ABCDEFGHIJKLMNOPQRSTUVWXYZ[\\]^_"
AsciiFrom97 == "abcdefghijklmnopqrstuvwxyz{|}~"

\* str::as_bytes of ASCII text
ByteOf == [c \in {SubSeq(AsciiUpTo95, i, i) : i \in 1..Len(AsciiUpTo95)}
                 \cup {SubSeq(AsciiFrom97, i, i) : i \in 1..Len(AsciiFrom97)} |->
              IF find(AsciiUpTo95, c) # 0 THEN 31 + find(AsciiUpTo95, c)
              ELSE 96 + find(AsciiFrom97, c)]
as_bytes(s) == [i \in 1..Len(s) |-> ByteOf[SubSeq(s, i, i)]]

\* str::parse::<usize>() of a short digit string
RECURSIVE ParseNat(_)
ParseNat(s) ==
    IF s = "" THEN 0
    ELSE 10 * ParseNat(SubSeq(s, 1, Len(s) - 1)) + DigitVal(SubSeq(s, Len(s), Len(s)))

(***************************************************************************)
(* semver::Version and rustc_version::Version as <<major, minor, patch>>   *)
(***************************************************************************)
VersionLt(a, b) ==
    \/ a[1] < b[1]
    \/ a[1] = b[1] /\ a[2] < b[2]
    \/ a[1] = b[1] /\ a[2] = b[2] /\ a[3] < b[3]
VersionGe(a, b) == ~VersionLt(a, b)
VersionString(v) == ToString(v[1]) \o "." \o ToString(v[2]) \o "." \o ToString(v[3])

(***************************************************************************)
(* Triple::parse: architecture, operating system and environment of a rust *)
(* target, read off the '-'-separated components of the triple             *)
(***************************************************************************)
Architectures == {"arm", "armv5te", "armv7", "i586", "i686", "riscv64gc", "s390x",
                  "x86_64", "aarch64", "mips", "powerpc", "wasm32"}
Environments == {"gnu", "gnueabi", "gnueabihf", "gnuabi64", "gnux32", "gnuspe",
                 "gnu_ilp32", "gnullvm", "musl", "musleabi", "musleabihf",
                 "muslabi64", "msvc", "ohos"}

TripleOf(parts) ==
    LET has(x) == \E k \in 1..Len(parts) : parts[k] = x
        last == parts[Len(parts)]
    IN [ok |-> Len(parts) >= 2 /\ parts[1] \in Architectures,
        architecture |-> parts[1],
        operating_system |->
            IF has("linux") THEN "Linux"
            ELSE IF has("darwin") THEN "Darwin"
            ELSE IF has("windows") THEN "Windows"
            ELSE IF has("freebsd") THEN "Freebsd"
            ELSE IF has("wasi") THEN "Wasi"
            ELSE IF has("unknown") /\ Len(parts) = 3 /\ last = "unknown" THEN "Unknown"
            ELSE "Other",
        environment |-> IF last \in Environments THEN last ELSE "unknown"]
ParseTriple(rust_target) == TripleOf(split(rust_target, "-"))

GnuEnvironments == {"gnu", "gnuspe", "gnux32", "gnueabi", "gnuabi64", "gnu_ilp32", "gnueabihf"}
MuslEnvironments == {"musl", "muslabi64", "musleabi", "musleabihf"}

\* let target_env = match (triple.architecture, triple.environment)
target_env(triple) ==
    IF triple.architecture \in {"mips", "powerpc"} /\ triple.environment = "gnu"
    THEN "gnueabihf"
    ELSE IF triple.environment = "gnullvm" THEN "gnu"
    ELSE triple.environment

\* let zig_mcpu_default = match triple.operating_system
zig_mcpu_default(triple) ==
    IF triple.operating_system # "Linux" THEN ""
    ELSE CASE triple.architecture = "arm" ->
                  (IF target_env(triple) \in {"gnueabi", "musleabi"}
                   THEN "generic+v6+strict_align"
                   ELSE IF target_env(triple) \in {"gnueabihf", "musleabihf"}
                   THEN "generic+v6+strict_align+vfp2-d32"
                   ELSE "")
           [] triple.architecture = "armv5te" -> "generic+soft_float+strict_align"
           [] triple.architecture = "armv7" -> "generic+v7a+vfp3-d32+thumb2-neon"
           [] triple.architecture = "i586" -> "pentium"
           [] triple.architecture = "i686" -> "pentium4"
           [] triple.architecture = "riscv64gc" -> "generic_rv64+m+a+f+d+c"
           [] triple.architecture = "s390x" -> "z10-vector"
           [] OTHER -> ""

\* target_flags.target_cpu.replace('-', "_")
zig_mcpu_override(target_cpu) == replace(target_cpu, "-", "_")

\* the CPU baseline argument pushed on cc_args, <<>> when there is none
McpuArg(mcpu_override, mcpu_default) ==
    IF mcpu_override # "" THEN <<"-mcpu=" \o mcpu_override>>
    ELSE IF mcpu_default # "" THEN <<"-mcpu=" \o mcpu_default>>
    ELSE <<>>
McpuArgs(triple, target_cpu) ==
    McpuArg(zig_mcpu_override(target_cpu), zig_mcpu_default(triple))

X86Name(zig_version) == IF zig_version[1] = 0 /\ zig_version[2] >= 11 THEN "x86" ELSE "i386"

\* the string pushed after "-target" by the match on the operating system;
\* "" stands for the bail!("unsupported target")
ZigTargetOf(triple, arch, env, x86, abi_suffix, zig_version) ==
       CASE triple.operating_system = "Linux" ->
              (CASE arch \in {"arm", "armv5te", "armv7"} -> "arm"
                 [] arch \in {"i586", "i686"} -> x86
                 [] arch = "riscv64gc" -> "riscv64"
                 [] OTHER -> arch)
              \o "-linux-"
              \o (IF VersionGe(zig_version, <<0, 15, 0>>) /\ arch = "armv7"
                     /\ env = "ohos"
                  THEN "ohoseabi" ELSE env)
              \o abi_suffix
         [] triple.operating_system = "Darwin" ->
              IF VersionLt(<<0, 9, 1>>, zig_version)
              THEN arch \o "-macos-none" \o abi_suffix
              ELSE arch \o "-macos-gnu" \o abi_suffix
         [] triple.operating_system = "Windows" ->
              (IF arch = "i686" THEN x86 ELSE arch)
              \o "-windows-" \o env \o abi_suffix
         [] triple.operating_system = "Wasi" -> arch \o "-wasi" \o abi_suffix
         [] triple.operating_system = "Freebsd" ->
              (IF arch = "i686" THEN x86 ELSE arch) \o "-freebsd"
         [] triple.operating_system = "Unknown" /\ arch = "wasm32" ->
              arch \o "-freestanding" \o abi_suffix
         [] OTHER -> ""
ZigTarget(triple, abi_suffix, zig_version) ==
    ZigTargetOf(triple, triple.architecture, target_env(triple), X86Name(zig_version),
                abi_suffix, zig_version)

\* cache_dir(): the directory the wrappers are materialized in
zig_linker_dir == "/cache/cargo-zigbuild/v"

\* the auxiliary files prepare_zig_linker writes for the target, in order:
\* the path, the content, and whether the content is compared before the write
AuxFilesOf(triple, glibc_version, zig_version, rustc_version) ==
    IF triple.operating_system # "Linux" THEN <<>>
    ELSE IF triple.environment \in GnuEnvironments
    THEN IF VersionLt(glibc_version, <<2, 28, 0>>)
            /\ zig_version[1] = 0 /\ zig_version[2] < 11
         THEN <<[path |-> zig_linker_dir \o "/fcntl.map", content |-> <<"FCNTL_MAP">>,
                 compare |-> TRUE],
                [path |-> zig_linker_dir \o "/fcntl.h", content |-> <<"FCNTL_H">>,
                 compare |-> TRUE]>>
         ELSE <<>>
    ELSE IF triple.environment \in MuslEnvironments
    THEN IF VersionGe(<<zig_version[1], zig_version[2], 0>>, <<0, 11, 0>>)
            /\ VersionLt(<<rustc_version[1], rustc_version[2], 0>>, <<1, 72, 0>>)
         THEN <<[path |-> zig_linker_dir \o "/musl_weak_symbols_map.ld",
                 content |-> <<"MUSL_WEAK_SYMBOLS_MAPPING_SCRIPT">>, compare |-> FALSE]>>
         ELSE <<>>
    ELSE <<>>

\* the glibc version of an ABI suffix "major.minor", 2.17 without a suffix
GlibcVersionOf(parts) ==
    IF Len(parts) < 2 THEN <<2, 17, 0>> ELSE <<ParseNat(parts[1]), ParseNat(parts[2]), 0>>
AuxFilesSplit(so, zig_version, rustc_version) ==
    AuxFilesOf(ParseTriple(so.x), GlibcVersionOf(split(so.y, ".")), zig_version, rustc_version)
AuxFiles(tgt, zig_version, rustc_version) ==
    AuxFilesSplit(split_once(tgt, "."), zig_version, rustc_version)

\* cc_args as prepare_zig_linker has built it when it joins it
CcArgsOf(triple, abi_suffix, aux, target_cpu, zig_version) ==
    <<"-g", "-fno-sanitize=all">>
    \o McpuArgs(triple, target_cpu)
    \o <<"-target", ZigTarget(triple, abi_suffix, zig_version)>>
    \o (IF Len(aux) = 2
        THEN <<"-Wl,--version-script=" \o aux[1].path, "-include", aux[2].path>>
        ELSE IF Len(aux) = 1 THEN <<"-Wl,-T," \o aux[1].path>>
        ELSE <<>>)
CcArgsSplit(so, target_cpu, zig_version, rustc_version) ==
    CcArgsOf(ParseTriple(so.x), IF so.y = "" THEN "" ELSE "." \o so.y,
             AuxFilesSplit(so, zig_version, rustc_version), target_cpu, zig_version)
cc_args(tgt, target_cpu, zig_version, rustc_version) ==
    CcArgsSplit(split_once(tgt, "."), target_cpu, zig_version, rustc_version)

\* shell_words::quote: a word of letters, digits and + - . / : @ ] _ is left
\* as it is, any other word (without single quotes) is put in single quotes
ShellSafe == Chars(LowerCase) \o Chars(UpperCase) \o Chars("0123456789+-./:@]_")
shell_quote(word) ==
    IF word = "" THEN "''"
    ELSE IF \A i \in 1..Len(word) : \E k \in 1..Len(ShellSafe) : ShellSafe[k] = SubSeq(word, i, i)
    THEN word
    ELSE "'" \o word \o "'"

\* shell_words::join
RECURSIVE join_args_for_script(_)
join_args_for_script(words) ==
    IF words = <<>> THEN ""
    ELSE IF Len(words) = 1 THEN shell_quote(words[1])
    ELSE shell_quote(Head(words)) \o " " \o join_args_for_script(Tail(words))

(***************************************************************************)
(* crc::Crc::<u16>::new(&crc::CRC_16_IBM_SDLC).checksum: polynomial 0x1021 *)
(* reflected (0x8408), initial value and final xor 0xffff, 16 bits wide    *)
(***************************************************************************)
CRC_WIDTH == 16
CRC_POLY_REFLECTED == 33800
CRC_INIT == 65535
CRC_XOROUT == 65535

RECURSIVE BitXor(_, _, _)
BitXor(a, b, bits) ==
    IF bits = 0 THEN 0
    ELSE ((a + b) % 2) + 2 * BitXor(a \div 2, b \div 2, bits - 1)

\* one bit: shift right, and xor the polynomial in when a 1 is shifted out
CrcShift(crc) ==
    IF crc % 2 = 1 THEN BitXor(crc \div 2, CRC_POLY_REFLECTED, CRC_WIDTH) ELSE crc \div 2

\* one byte: xor it into the low bits, then eight shifts
CrcByte(crc, byte) ==
    CrcShift(CrcShift(CrcShift(CrcShift(CrcShift(CrcShift(CrcShift(CrcShift(
        BitXor(crc, byte, CRC_WIDTH)))))))))

\* the register after bytes[lo..hi], left to right (the range is halved to
\* keep the evaluation shallow)
RECURSIVE CrcUpdate(_, _, _, _)
CrcUpdate(crc, bytes, lo, hi) ==
    IF lo > hi THEN crc
    ELSE IF lo = hi THEN CrcByte(crc, bytes[lo])
    ELSE LET left == CrcUpdate(crc, bytes, lo, (lo + hi) \div 2)
         IN IF left >= 0 THEN CrcUpdate(left, bytes, ((lo + hi) \div 2) + 1, hi) ELSE left

checksum(bytes) == BitXor(CrcUpdate(CRC_INIT, bytes, 1, Len(bytes)), CRC_XOROUT, CRC_WIDTH)

\* format!("{:x}", hash)
HexDigits == "0123456789abcdef"
RECURSIVE LowerHex(_)
LowerHex(n) ==
    IF n < 16 THEN SubSeq(HexDigits, n + 1, n + 1)
    ELSE LowerHex(n \div 16) \o SubSeq(HexDigits, (n % 16) + 1, (n % 16) + 1)

\* zig_linker_dir.join(format!("zigcc-{file_target}-{:x}.{file_ext}", hash))
WrapperPath(tool, tgt, hash) ==
    zig_linker_dir \o "/zig" \o tool \o "-" \o trim_end_matches(tgt, ".") \o "-"
    \o LowerHex(hash) \o ".sh"

\* the bytes write_linker_wrapper builds, as a sequence of lines
WrapperScript(current_exe, command, baked_args, zig_version) ==
    <<"#!/bin/sh",
      "export CARGO_ZIGBUILD_ZIG_VERSION=" \o VersionString(zig_version),
      "if [ -n \"$SDKROOT\" ]; then export SDKROOT; fi",
      "exec \"" \o current_exe \o "\" zig " \o command \o " -- " \o baked_args \o " \"$@\"">>

(***************************************************************************)
(* Part IV.  prepare_zig_linker materializing the wrappers, run by         *)
(* processes that share the cache directory                                *)
(***************************************************************************)
Procs == {"p1", "p2"}

FileEntry(content) == [kind |-> "file", bytes |-> content, to |-> ""]
LinkEntry(exe) == [kind |-> "link", bytes |-> <<>>, to |-> exe]
DirEntry == [kind |-> "dir", bytes |-> <<>>, to |-> ""]

\* the file system restricted to what the materializer touches
FsPut(fsys, path, entry) ==
    [q \in DOMAIN fsys \cup {path} |-> IF q = path THEN entry ELSE fsys[q]]
FsRemove(fsys, path) == [q \in DOMAIN fsys \ {path} |-> fsys[q]]

\* the executables that exist outside the cache directory
ExeA == "/bin/a/cargo-zigbuild"
ExeB == "/bin/b/cargo-zigbuild"
Executables == {ExeA, ExeB}

\* Path::exists: follows a link, false for a dangling one
PathExists(fsys, path) ==
    /\ path \in DOMAIN fsys
    /\ fsys[path].kind = "link" => fsys[path].to \in Executables

\* everything prepare_zig_linker decides before it touches the cache
\* directory: the joined flags, the files to write and the links to create
PlanOf(tgt, cfg, cc_args_str, hash) ==
    LET script(tool, command, baked) ==
            [path |-> IF tool = "ranlib" THEN zig_linker_dir \o "/zigranlib.sh"
                      ELSE WrapperPath(tool, tgt, hash),
             content |-> WrapperScript(cfg.current_exe, command, baked, cfg.zig_version),
             compare |-> TRUE]
    IN [cc_args_str |-> cc_args_str,
        files |-> AuxFiles(tgt, cfg.zig_version, cfg.rustc_version)
                  \o <<script("cc", "cc", cc_args_str),
                       script("cxx", "c++", cc_args_str),
                       script("ranlib", "ranlib", "")>>,
        links |-> <<zig_linker_dir \o "/ar", zig_linker_dir \o "/lib">>]
PlanJoined(tgt, cfg, cc_args_str) ==
    PlanOf(tgt, cfg, cc_args_str, checksum(as_bytes(cc_args_str)))
MaterializePlan(tgt, cfg) ==
    PlanJoined(tgt, cfg, join_args_for_script(
        cc_args(tgt, cfg.target_cpu, cfg.zig_version, cfg.rustc_version)))

\* inputs of a process: RUSTFLAGS target-cpu, the running executable, the
\* zig and rustc versions
BaseConfig == [target_cpu |-> "skylake", current_exe |-> ExeA,
               zig_version |-> <<0, 13, 0>>, rustc_version |-> <<1, 70, 0>>]
Configs == {BaseConfig,
            [BaseConfig EXCEPT !.target_cpu = "jy9"],
            [BaseConfig EXCEPT !.target_cpu = "haswell"],
            [BaseConfig EXCEPT !.current_exe = ExeB],
            [BaseConfig EXCEPT !.zig_version = <<0, 15, 2>>],
            [BaseConfig EXCEPT !.zig_version = <<0, 10, 1>>],
            [BaseConfig EXCEPT !.rustc_version = <<1, 80, 0>>]}

WrapperTargets == {"x86_64-unknown-linux-gnu", "aarch64-unknown-linux-musl"}

\* the cache directory before the first run: absent, or left by an earlier
\* installation (a link to an executable that is gone, an old zigranlib.sh)
EmptyCache == [q \in {"/cache"} |-> DirEntry]
ExeOld == "/bin/old/cargo-zigbuild"
StaleFrom(old) ==
    FsPut(FsPut(FsPut(FsPut(EmptyCache, zig_linker_dir, DirEntry),
                      zig_linker_dir \o "/ar", LinkEntry(ExeOld)),
                old[Len(old)].path, FileEntry(old[Len(old)].content)),
          old[Len(old) - 2].path, FileEntry(old[Len(old) - 2].content))
StaleCache(tgt) ==
    StaleFrom(MaterializePlan(tgt, [BaseConfig EXCEPT !.current_exe = ExeOld]).files)

RunsStarted == procs["p1"].runs + procs["p2"].runs

WrapperInit ==
    \E tgt \in WrapperTargets, cfg \in Configs, stale \in BOOLEAN :
        /\ cache = IF stale THEN StaleCache(tgt) ELSE EmptyCache
        /\ procs = [p \in Procs |->
                      [pc |-> "idle", tgt |-> tgt,
                       cfg |-> IF p = "p1" THEN BaseConfig ELSE cfg,
                       plan |-> MaterializePlan(tgt, IF p = "p1" THEN BaseConfig ELSE cfg),
                       item |-> 0, link |-> 0, seen |-> <<>>,
                       written |-> {}, runs |-> 0, result |-> ""]]

\* the decisions of a process, a function of its inputs
Plan(p) == procs[p].plan
Item(p) == Plan(p).files[procs[p].item]
LinkPath(p) == Plan(p).links[procs[p].link]

\* prepare_zig_linker up to and including fs::create_dir_all(&zig_linker_dir);
\* its decisions are a function of the inputs, the same in every run
Begin(p) ==
    /\ procs[p].pc \in {"idle", "done"}
    /\ RunsStarted < MaxRuns
    /\ cache' = FsPut(cache, zig_linker_dir, DirEntry)
    /\ procs' = [procs EXCEPT ![p] =
                    [@ EXCEPT !.pc = "file",
                              !.item = 1, !.link = 0, !.seen = <<>>,
                              !.written = {},
                              !.runs = @ + 1, !.result = ""]]
    /\ UNCHANGED <<machoVars, targetVars, envVars, filterVars>>

\* after the file at procs[p].item: the next file, or the first link
AfterFile(r) ==
    IF r.item < Len(r.plan.files)
    THEN [r EXCEPT !.pc = "file", !.item = @ + 1, !.seen = <<>>]
    ELSE [r EXCEPT !.pc = "exists", !.item = 0, !.link = 1, !.seen = <<>>]

\* let existing_content = fs::read(path).unwrap_or_default()
ReadExisting(p) ==
    /\ procs[p].pc = "file"
    /\ Item(p).compare
    /\ procs' = [procs EXCEPT ![p] =
                    [@ EXCEPT !.pc = "write",
                              !.seen = IF Item(p).path \in DOMAIN cache
                                       THEN cache[Item(p).path].bytes ELSE <<>>]]
    /\ UNCHANGED <<cache, machoVars, targetVars, envVars, filterVars>>

\* WriteContent that leaves any file that is already there alone
WriteContent_KeepExisting(p) ==
    /\ \/ procs[p].pc = "write"
       \/ procs[p].pc = "file" /\ ~Item(p).compare
    /\ IF Item(p).path \in DOMAIN cache
       THEN /\ cache' = cache
            /\ procs' = [procs EXCEPT ![p] = AfterFile(@)]
       ELSE /\ cache' = FsPut(cache, Item(p).path, FileEntry(Item(p).content))
            /\ procs' = [procs EXCEPT ![p] =
                            AfterFile([@ EXCEPT !.written = @ \cup {Item(p).path}])]
    /\ UNCHANGED <<machoVars, targetVars, envVars, filterVars>>

\* if existing_content != buf { OpenOptions::new().create(true).write(true)
\* .truncate(true).open(path)? ... }, or the open of the unconditional
\* fs::write: the file is created or cut to length 0
WriteContent(p) ==
    /\ \/ procs[p].pc = "write"
       \/ procs[p].pc = "file" /\ ~Item(p).compare
    /\ IF procs[p].pc = "write" /\ procs[p].seen = Item(p).content
       THEN /\ cache' = cache
            /\ procs' = [procs EXCEPT ![p] = AfterFile(@)]
       ELSE /\ cache' = FsPut(cache, Item(p).path, FileEntry(<<>>))
            /\ procs' = [procs EXCEPT ![p] = [@ EXCEPT !.pc = "write_all"]]
    /\ UNCHANGED <<machoVars, targetVars, envVars, filterVars>>

\* the length in bytes of a content, each line with its line feed
RECURSIVE ContentLen(_)
ContentLen(lines) ==
    IF lines = <<>> THEN 0 ELSE Len(Head(lines)) + 1 + ContentLen(Tail(lines))
\* the bytes of a content from byte `from` on, as one string
RECURSIVE ContentFrom(_, _)
ContentFrom(lines, from) ==
    IF lines = <<>> THEN ""
    ELSE IF from > Len(Head(lines)) + 1
    THEN ContentFrom(Tail(lines), from - Len(Head(lines)) - 1)
    ELSE SubSeq(Head(lines) \o "\n", from, Len(Head(lines)) + 1)
         \o ContentFrom(Tail(lines), 1)
\* write_all at offset 0 of a file that holds `existing`: bytes beyond the
\* written ones stay
WrittenOver(content, existing) ==
    IF ContentLen(existing) <= ContentLen(content) THEN content
    ELSE content \o <<ContentFrom(existing, ContentLen(content) + 1)>>

\* .write_all(&buf)? on the file opened by WriteContent
WriteAll(p) ==
    /\ procs[p].pc = "write_all"
    /\ cache' = FsPut(cache, Item(p).path,
                      FileEntry(WrittenOver(Item(p).content,
                          IF Item(p).path \in DOMAIN cache
                          THEN cache[Item(p).path].bytes ELSE <<>>)))
    /\ procs' = [procs EXCEPT ![p] =
                    AfterFile([@ EXCEPT !.written = @ \cup {Item(p).path}])]
    /\ UNCHANGED <<machoVars, targetVars, envVars, filterVars>>

\* after the link at procs[p].link: the next link, or Ok(ZigWrapper)
AfterLink(r) ==
    IF r.link < Len(r.plan.links)
    THEN [r EXCEPT !.pc = "exists", !.link = @ + 1]
    ELSE [r EXCEPT !.pc = "done", !.link = 0, !.result = "Ok"]

Fail(r) == [r EXCEPT !.pc = "done", !.result = "IoError"]

\* symlink_wrapper: if !target.exists()
CheckExists(p) ==
    /\ procs[p].pc = "exists"
    /\ procs' = [procs EXCEPT ![p] =
                    IF PathExists(cache, LinkPath(p)) THEN AfterLink(@)
                    ELSE [@ EXCEPT !.pc = "read_link"]]
    /\ UNCHANGED <<cache, machoVars, targetVars, envVars, filterVars>>

\* symlink_wrapper: if fs::read_link(target).is_ok()
ReadLink(p) ==
    /\ procs[p].pc = "read_link"
    /\ procs' = [procs EXCEPT ![p] =
                    IF LinkPath(p) \in DOMAIN cache /\ cache[LinkPath(p)].kind = "link"
                    THEN [@ EXCEPT !.pc = "remove"]
                    ELSE [@ EXCEPT !.pc = "symlink"]]
    /\ UNCHANGED <<cache, machoVars, targetVars, envVars, filterVars>>

\* symlink_wrapper: fs::remove_file(target)?
RemoveFile(p) ==
    /\ procs[p].pc = "remove"
    /\ IF LinkPath(p) \in DOMAIN cache
       THEN /\ cache' = FsRemove(cache, LinkPath(p))
            /\ procs' = [procs EXCEPT ![p] = [@ EXCEPT !.pc = "symlink"]]
       ELSE /\ cache' = cache
            /\ procs' = [procs EXCEPT ![p] = Fail(@)]
    /\ UNCHANGED <<machoVars, targetVars, envVars, filterVars>>

\* symlink_wrapper: std::os::unix::fs::symlink(current_exe, target)?
Symlink(p) ==
    /\ procs[p].pc = "symlink"
    /\ IF LinkPath(p) \in DOMAIN cache
       THEN /\ cache' = cache
            /\ procs' = [procs EXCEPT ![p] = Fail(@)]
       ELSE /\ cache' = FsPut(cache, LinkPath(p), LinkEntry(procs[p].cfg.current_exe))
            /\ procs' = [procs EXCEPT ![p] =
                            AfterLink([@ EXCEPT !.written = @ \cup {LinkPath(p)}])]
    /\ UNCHANGED <<machoVars, targetVars, envVars, filterVars>>

InitWrapper == MachOIdle /\ TargetIdle /\ EnvIdle /\ FilterIdle /\ WrapperInit
NextWrapper ==
    \E p \in Procs :
        \/ Begin(p)
        \/ ReadExisting(p)
        \/ WriteContent(p)
        \/ WriteAll(p)
        \/ CheckExists(p)
        \/ ReadLink(p)
        \/ RemoveFile(p)
        \/ Symlink(p)
SpecWrapper == InitWrapper /\ [][NextWrapper]_vars

(***************************************************************************)
(* Part V.  Zig::apply_command_env staging the toolchain environment on    *)
(* the child command                                                       *)
(***************************************************************************)
EnvPut(env, name, value) ==
    [n \in DOMAIN env \cup {name} |-> IF n = name THEN value ELSE env[n]]
IsSet(env, name) == name \in DOMAIN env

\* target.split_once('.').map(|(t, _)| t).unwrap_or(target)
ParsedTarget(raw_target) == split_once(raw_target, ".").x
\* let env_target = parsed_target.replace('-', "_")
EnvTarget(parsed_target) == replace(parsed_target, "-", "_")
\* format!("CARGO_TARGET_{}_LINKER", env_target.to_uppercase())
LinkerEnvName_NoUppercase(env_target) == "CARGO_TARGET_" \o env_target \o "_LINKER"
LinkerEnvName(env_target) == "CARGO_TARGET_" \o to_uppercase(env_target) \o "_LINKER"

\* the names the applier forms for one target
EnvNames(parsed_target) ==
    [cc |-> "CC_" \o EnvTarget(parsed_target),
     cxx |-> "CXX_" \o EnvTarget(parsed_target),
     linker |-> LinkerEnvName(EnvTarget(parsed_target)),
     ranlib |-> "RANLIB_" \o EnvTarget(parsed_target),
     ar |-> "AR_" \o EnvTarget(parsed_target),
     cmake |-> "CMAKE_TOOLCHAIN_FILE_" \o EnvTarget(parsed_target),
     cmake_parsed |-> "CMAKE_TOOLCHAIN_FILE_" \o parsed_target,
     bindgen |-> "BINDGEN_EXTRA_CLANG_ARGS_" \o EnvTarget(parsed_target),
     bindgen_parsed |-> "BINDGEN_EXTRA_CLANG_ARGS_" \o parsed_target]

\* the ZigWrapper prepare_zig_linker returns, its paths taken as opaque
zig_wrapper == [cc |-> "zig_wrapper.cc", cxx |-> "zig_wrapper.cxx",
                ranlib |-> "zig_wrapper.ranlib", ar |-> "zig_wrapper.ar",
                lib |-> "zig_wrapper.lib"]

RawTargets == {"x86_64-unknown-linux-gnu.2.17", "x86_64-pc-windows-gnu",
               "x86_64-pc-windows-msvc", "aarch64-apple-darwin", "wasm32-wasip1"}

\* what the caller may have set before the applier runs
PresetNames(names) ==
    {"CARGO_ZIGBUILD_RUSTC_VERSION", names.cc, names.cxx, names.linker, names.ranlib,
     names.ar, names.cmake, "WINAPI_NO_BUNDLED_LIBRARIES", "PATH",
     "PKG_CONFIG_SYSROOT_DIR", "CARGO_UNSTABLE_TARGET_APPLIES_TO_HOST",
     "CARGO_TARGET_APPLIES_TO_HOST", names.bindgen}
SystemEnv == [n \in {"PATH"} |-> "/usr/bin"]

EnvInitWith(raw_target, names) ==
    \E preset \in PresetNames(names) \cup {""}, staged \in BOOLEAN,
       enable_zig_ar \in BOOLEAN, is_host \in BOOLEAN, dlltool \in BOOLEAN :
        /\ parent_env = IF preset # "" /\ ~staged
                        THEN EnvPut(SystemEnv, preset, "caller") ELSE SystemEnv
        /\ cmd_env = IF preset # "" /\ staged
                     THEN [n \in {preset} |-> "caller"] ELSE <<>>
        /\ applier = [pc |-> "rustc_version", raw_target |-> raw_target,
                      parsed_target |-> ParsedTarget(raw_target), names |-> names,
                      enable_zig_ar |-> enable_zig_ar, is_host |-> is_host,
                      has_system_dlltool |-> dlltool,
                      parent0 |-> IF preset # "" /\ ~staged
                                  THEN EnvPut(SystemEnv, preset, "caller") ELSE SystemEnv,
                      cmd0 |-> IF preset # "" /\ staged
                               THEN [n \in {preset} |-> "caller"] ELSE <<>>]
EnvInit == \E raw_target \in RawTargets :
               EnvInitWith(raw_target, EnvNames(ParsedTarget(raw_target)))

\* add_env_if_missing that looks only at what is staged on the command
add_env_if_missing_StagedOnly(cmd, name, value) ==
    IF ~IsSet(cmd, name) THEN EnvPut(cmd, name, value) ELSE cmd

\* add_env_if_missing: the command's environment after the call
add_env_if_missing(cmd, name, value) ==
    IF ~IsSet(cmd, name) /\ ~IsSet(parent_env, name) THEN EnvPut(cmd, name, value) ELSE cmd

EnvStep(from, to) ==
    /\ applier.pc = from
    /\ applier' = [applier EXCEPT !.pc = to]
    /\ UNCHANGED <<machoVars, targetVars, wrapperVars, filterVars>>

\* add_env_if_missing(cmd, "CARGO_ZIGBUILD_RUSTC_VERSION", ..)
SetRustcVersion ==
    /\ EnvStep("rustc_version", "cc")
    /\ cmd_env' = add_env_if_missing(cmd_env, "CARGO_ZIGBUILD_RUSTC_VERSION", "1.70.0")
    /\ UNCHANGED parent_env

WithLinker(cmd) ==
    IF ~contains(applier.parsed_target, "wasm")
    THEN add_env_if_missing(cmd, applier.names.linker, zig_wrapper.cc)
    ELSE cmd

\* CC_, CXX_ and, unless the target is a wasm one, CARGO_TARGET_.._LINKER
SetCompilerAndLinker ==
    /\ EnvStep("cc", "ranlib")
    /\ cmd_env' = WithLinker(
                      add_env_if_missing(
                          add_env_if_missing(cmd_env, applier.names.cc, zig_wrapper.cc),
                          applier.names.cxx, zig_wrapper.cxx))
    /\ UNCHANGED parent_env

WithAr(cmd) ==
    IF applier.enable_zig_ar
    THEN add_env_if_missing(cmd, applier.names.ar,
                            IF contains(applier.parsed_target, "msvc")
                            THEN zig_wrapper.lib ELSE zig_wrapper.ar)
    ELSE cmd

\* RANLIB_ and, when enable_zig_ar, AR_
SetRanlibAndAr ==
    /\ EnvStep("ranlib", "cmake")
    /\ cmd_env' = WithAr(add_env_if_missing(cmd_env, applier.names.ranlib, zig_wrapper.ranlib))
    /\ UNCHANGED parent_env

\* CMAKE_TOOLCHAIN_FILE_<env_target>, unless one of four variables is set in
\* the parent environment
SetCmakeToolchainFile ==
    /\ EnvStep("cmake", "windows_gnu")
    /\ cmd_env' = IF /\ ~IsSet(parent_env, applier.names.cmake)
                     /\ ~IsSet(parent_env, applier.names.cmake_parsed)
                     /\ ~IsSet(parent_env, "TARGET_CMAKE_TOOLCHAIN_FILE")
                     /\ ~IsSet(parent_env, "CMAKE_TOOLCHAIN_FILE")
                  THEN EnvPut(cmd_env, applier.names.cmake, "cmake_toolchain_file")
                  ELSE cmd_env
    /\ UNCHANGED parent_env

WithPath(cmd) ==
    IF ~applier.has_system_dlltool
    THEN EnvPut(cmd, "PATH",
                "/cache/cargo-zigbuild" \o
                (IF IsSet(parent_env, "PATH") THEN ":" \o parent_env["PATH"] ELSE ""))
    ELSE cmd

\* if raw_target.contains("windows-gnu"): WINAPI_NO_BUNDLED_LIBRARIES, PATH
SetWindowsGnu ==
    /\ EnvStep("windows_gnu", "pkg_config")
    /\ cmd_env' = IF contains(applier.raw_target, "windows-gnu")
                  THEN WithPath(EnvPut(cmd_env, "WINAPI_NO_BUNDLED_LIBRARIES", "1"))
                  ELSE cmd_env
    /\ UNCHANGED parent_env

\* PKG_CONFIG_SYSROOT_DIR for apple-darwin targets with an SDK root
SetPkgConfigSysroot ==
    /\ EnvStep("pkg_config", "applies_to_host")
    /\ cmd_env' = IF /\ contains(applier.raw_target, "apple-darwin")
                     /\ ~IsSet(parent_env, "PKG_CONFIG_SYSROOT_DIR")
                  THEN EnvPut(cmd_env, "PKG_CONFIG_SYSROOT_DIR", "sdkroot")
                  ELSE cmd_env
    /\ UNCHANGED parent_env

\* if host_target == parsed_target (stable channel)
SetAppliesToHost ==
    /\ EnvStep("applies_to_host", "bindgen")
    /\ cmd_env' = IF applier.is_host
                  THEN EnvPut(EnvPut(EnvPut(cmd_env,
                           "__CARGO_TEST_CHANNEL_OVERRIDE_DO_NOT_USE_THIS", "nightly"),
                           "CARGO_UNSTABLE_TARGET_APPLIES_TO_HOST", "true"),
                           "CARGO_TARGET_APPLIES_TO_HOST", "false")
                  ELSE cmd_env
    /\ UNCHANGED parent_env

\* the value env::set_var gives BINDGEN_EXTRA_CLANG_ARGS_<target>: the
\* existing value (or the BINDGEN_EXTRA_CLANG_ARGS fallback), a space, the
\* escaped options
BindgenValue(env, name) ==
    IF IsSet(env, name) THEN env[name] \o " " \o "escaped_options"
    ELSE IF IsSet(env, "BINDGEN_EXTRA_CLANG_ARGS")
    THEN env["BINDGEN_EXTRA_CLANG_ARGS"] \o " " \o "escaped_options"
    ELSE "escaped_options"
SetBindgen(env, name) == EnvPut(env, name, BindgenValue(env, name))

\* for target in [&env_target[..], parsed_target]: env::set_var(name, value)
SetBindgenExtraClangArgs ==
    /\ EnvStep("bindgen", "done")
    /\ parent_env' = SetBindgen(SetBindgen(parent_env, applier.names.bindgen),
                                applier.names.bindgen_parsed)
    /\ UNCHANGED cmd_env

InitEnv == MachOIdle /\ TargetIdle /\ WrapperIdle /\ FilterIdle /\ EnvInit
NextEnv ==
    \/ SetRustcVersion
    \/ SetCompilerAndLinker
    \/ SetRanlibAndAr
    \/ SetCmakeToolchainFile
    \/ SetWindowsGnu
    \/ SetPkgConfigSysroot
    \/ SetAppliesToHost
    \/ SetBindgenExtraClangArgs
SpecEnv == InitEnv /\ [][NextEnv]_vars

(***************************************************************************)
(* Part VI.  Zig::execute_compiler filtering the arguments of a compiler   *)
(* wrapper invocation                                                      *)
(***************************************************************************)
\* TargetInfo: target is [some |-> BOOLEAN, value |-> the string]
NoTarget == [some |-> FALSE, value |-> ""]
SomeTarget(v) == [some |-> TRUE, value |-> v]
is_arm_OnlyVersioned(t) == t.some /\ starts_with(t.value, "armv")
is_arm(t) == t.some /\ starts_with(t.value, "arm")
is_aarch64(t) == t.some /\ starts_with(t.value, "aarch64")
is_aarch64_be(t) == t.some /\ starts_with(t.value, "aarch64_be")
is_i386(t) == t.some /\ starts_with(t.value, "i386")
is_i686_NoX86Prefix(t) == t.some /\ starts_with(t.value, "i686")
is_i686(t) == t.some /\ (starts_with(t.value, "i686") \/ starts_with(t.value, "x86-"))
is_riscv64(t) == t.some /\ starts_with(t.value, "riscv64")
is_riscv32(t) == t.some /\ starts_with(t.value, "riscv32")
is_mips32(t) == t.some /\ starts_with(t.value, "mips") /\ ~starts_with(t.value, "mips64")
is_musl_Never(t) == FALSE
is_musl(t) == t.some /\ contains(t.value, "musl")
is_macos(t) == t.some /\ contains(t.value, "macos")
is_darwin(t) == t.some /\ contains(t.value, "darwin")
is_visionos(t) == t.some /\ contains(t.value, "visionos")
is_watchos(t) == t.some /\ contains(t.value, "watchos")
is_tvos(t) == t.some /\ contains(t.value, "tvos")
is_ios(t) == t.some /\ contains(t.value, "ios") /\ ~contains(t.value, "visionos")
is_apple_platform(t) ==
    t.some /\ \E os \in {"macos", "darwin", "ios", "tvos", "watchos", "visionos"} :
                 contains(t.value, os)
apple_cpu(t) ==
    IF is_macos(t) \/ is_darwin(t) THEN "apple_m1"
    ELSE IF is_visionos(t) THEN "apple_m2"
    ELSE IF is_watchos(t) THEN "apple_s5"
    ELSE IF is_ios(t) \/ is_tvos(t) THEN "apple_a14"
    ELSE "generic"
is_freebsd(t) == t.some /\ contains(t.value, "freebsd")
is_windows_gnu(t) == t.some /\ contains(t.value, "windows-gnu")
is_windows_msvc(t) == t.some /\ contains(t.value, "windows-msvc")
is_ohos(t) == t.some /\ contains(t.value, "ohos")

Keep(kept) == [kind |-> "Keep", args |-> kept]
Skip == [kind |-> "Skip", args |-> <<>>]
SkipWithNext == [kind |-> "SkipWithNext", args |-> <<>>]

\* (zig_version.major, zig_version.minor) < (major, minor)
MinorLt(v, major, minor) == VersionLt(<<v[1], v[2], 0>>, <<major, minor, 0>>)

\* the rewrite of -march=armv.. for 64-bit ARM; features is the text from
\* the first '+' on
MarchToMcpu_NoAssembler(arg, features, target_info) ==
    Keep(<<"-mcpu="
             \o (IF is_apple_platform(target_info) THEN apple_cpu(target_info) ELSE "generic")
             \o features>>)
MarchToMcpu(arg, features, target_info) ==
    Keep(<<"-mcpu="
             \o (IF is_apple_platform(target_info) THEN apple_cpu(target_info) ELSE "generic")
             \o features>>
         \o (IF contains(features, "+crypto") THEN <<"-Xassembler", arg>> ELSE <<>>))
FeaturesFrom(march_value, pos) ==
    IF pos = 0 THEN "" ELSE SubSeq(march_value, pos, Len(march_value))
FeaturesOf(march_value) == FeaturesFrom(march_value, find(march_value, "+"))

\* filter_linker_arg from the test on windows-gnu on (the first three tests
\* are in filter_linker_arg below)
FilterRest(arg, rustc_ver, zig_version, target_info) ==
    IF /\ is_arm(target_info) \/ is_windows_gnu(target_info)
       /\ ends_with(arg, ".rlib")
       /\ contains(arg, "libcompiler_builtins-")
    THEN Skip
    ELSE IF /\ is_windows_gnu(target_info)
            /\ arg = "-lgcc_eh"
            /\ MinorLt(zig_version, 0, 14) \/ is_i686(target_info)
    THEN Keep(<<"-lc++">>)
    ELSE IF /\ is_windows_gnu(target_info)
            /\ arg # "-lgcc_eh"
            /\ ends_with(arg, "rsbegin.o") \/ ends_with(arg, "rsend.o")
            /\ is_i686(target_info)
    THEN Skip
    ELSE IF /\ is_windows_gnu(target_info)
            /\ arg # "-lgcc_eh"
            /\ ~(ends_with(arg, "rsbegin.o") \/ ends_with(arg, "rsend.o"))
            /\ arg = "-Wl,-Bdynamic" /\ ~MinorLt(zig_version, 0, 11)
    THEN Keep(<<"-Wl,-search_paths_first">>)
    ELSE IF /\ is_windows_gnu(target_info)
            /\ arg # "-lgcc_eh"
            /\ ~(ends_with(arg, "rsbegin.o") \/ ends_with(arg, "rsend.o"))
            /\ arg # "-Wl,-Bdynamic"
            /\ \/ arg \in {"-lwindows", "-l:libpthread.a", "-lgcc", "-lmsvcrt",
                           "-Wl,--disable-auto-image-base", "-Wl,--dynamicbase",
                           "-Wl,--large-address-aware"}
               \/ /\ starts_with(arg, "-Wl,")
                  /\ ends_with(arg, "/list.def") \/ ends_with(arg, "\\list.def")
    THEN Skip
    ELSE IF /\ ~is_windows_gnu(target_info)
            /\ \/ arg \in {"-Wl,--no-undefined-version", "-Wl,-znostart-stop-gc"}
               \/ starts_with(arg, "-Wl,-plugin-opt")
    THEN Skip
    ELSE IF /\ is_musl(target_info) \/ is_ohos(target_info)
            /\ \/ ends_with(arg, ".o") /\ contains(arg, "self-contained") /\ contains(arg, "crt")
               \/ arg = "-Wl,-melf_i386"
               \/ /\ rustc_ver[1] = 1 /\ rustc_ver[2] < 59
                  /\ ends_with(arg, ".rlib") /\ contains(arg, "liblibc-")
               \/ arg = "-lc"
    THEN Skip
    ELSE IF starts_with(arg, "-march=") /\ (is_arm(target_info) \/ is_i386(target_info))
    THEN Skip
    ELSE IF starts_with(arg, "-march=") /\ is_riscv64(target_info)
    THEN Keep(<<"-march=generic_rv64">>)
    ELSE IF starts_with(arg, "-march=") /\ is_riscv32(target_info)
    THEN Keep(<<"-march=generic_rv32">>)
    ELSE IF /\ starts_with(arg, "-march=armv")
            /\ is_aarch64(target_info) \/ is_aarch64_be(target_info)
    THEN MarchToMcpu(arg, FeaturesOf(SubSeq(arg, 8, Len(arg))), target_info)
    ELSE IF /\ is_apple_platform(target_info)
            /\ MinorLt(zig_version, 0, 16)
            /\ starts_with(arg, "-Wl,-exported_symbols_list,")
    THEN Skip
    ELSE IF /\ is_apple_platform(target_info)
            /\ MinorLt(zig_version, 0, 16)
            /\ arg = "-Wl,-exported_symbols_list"
    THEN SkipWithNext
    ELSE IF is_apple_platform(target_info) /\ arg = "-Wl,-dylib"
    THEN Skip
    ELSE IF /\ MinorLt(zig_version, 0, 16)
            /\ arg \in {"-Wl,-exported_symbols_list", "-Wl,--dynamic-list"}
    THEN SkipWithNext
    ELSE IF /\ MinorLt(zig_version, 0, 16)
            /\ \/ starts_with(arg, "-Wl,-exported_symbols_list,")
               \/ starts_with(arg, "-Wl,--dynamic-list,")
    THEN Skip
    ELSE IF /\ is_freebsd(target_info)
            /\ arg \in {"-lkvm", "-lmemstat", "-lprocstat", "-ldevstat"}
    THEN Skip
    ELSE Keep(<<arg>>)

\* filter_linker_arg without the rewrite of -lgcc_s
filter_linker_arg_NoUnwind(arg, rustc_ver, zig_version, target_info) ==
    IF starts_with(arg, "--target=") THEN Skip
    ELSE IF starts_with(arg, "-e") /\ Len(arg) > 2 /\ ~starts_with(arg, "-export")
    THEN Keep(<<"-Wl,--entry=" \o SubSeq(arg, 3, Len(arg))>>)
    ELSE FilterRest(arg, rustc_ver, zig_version, target_info)

filter_linker_arg(arg, rustc_ver, zig_version, target_info) ==
    IF arg = "-lgcc_s" THEN Keep(<<"-lunwind">>)
    ELSE IF starts_with(arg, "--target=") THEN Skip
    ELSE IF starts_with(arg, "-e") /\ Len(arg) > 2 /\ ~starts_with(arg, "-export")
    THEN Keep(<<"-Wl,--entry=" \o SubSeq(arg, 3, Len(arg))>>)
    ELSE FilterRest(arg, rustc_ver, zig_version, target_info)

\* iter().position(|x| x == word): 0 when there is none
Position(list, word) ==
    IF \E k \in 1..Len(list) : list[k] = word
    THEN CHOOSE k \in 1..Len(list) :
            list[k] = word /\ \A j \in 1..(k - 1) : list[j] # word
    ELSE 0

\* cmd_args.get(index + 1) after the first occurrence of word
AfterAt(list, index) ==
    IF index = 0 \/ index + 1 > Len(list) THEN NoTarget ELSE SomeTarget(list[index + 1])
AfterFirst(list, word) == AfterAt(list, Position(list, word))

has_undefined_dynamic_lookup(list) ==
    AfterFirst(list, "-undefined") = SomeTarget("dynamic_lookup")

should_add_libcharset(list, zig_version) ==
    /\ ~MinorLt(zig_version, 0, 12)
    /\ \E k \in 1..Len(list) : list[k] = "-liconv"
    /\ ~\E k \in 1..Len(list) : list[k] = "-lcharset"

\* add_macos_specific_args: what it appends to new_cmd_args
macos_specific_args(sdkroot, zig_version) ==
    (IF sdkroot /\ ~MinorLt(zig_version, 0, 12) /\ MinorLt(zig_version, 0, 15)
     THEN <<"--sysroot=/sdk">> ELSE <<>>)
    \o (IF ~sdkroot THEN <<>>
        ELSE IF MinorLt(zig_version, 0, 15)
        THEN <<"-isystem", "/sdk/usr/include", "-L/sdk/usr/lib",
               "-F/sdk/System/Library/Frameworks", "-DTARGET_OS_IPHONE=0">>
        ELSE <<"-isystem", "/sdk/usr/include", "-L/sdk/usr/lib",
               "-F/sdk/System/Library/Frameworks", "-iframework",
               "/sdk/System/Library/Frameworks", "-DTARGET_OS_IPHONE=0">>)
    \o <<"-L", "/cache/cargo-zigbuild/deps">>

(***************************************************************************)
(* Part VII.  process_linker_response_file                                 *)
(*                                                                         *)
(* A text is a sequence of characters.  The characters are the line feed   *)
(* and, one character each, the arguments a line can hold: no rule looks   *)
(* inside a file at anything smaller.  A byte is the UTF-8 byte of a       *)
(* character, or the low or the high byte of its UTF-16 code unit, or one  *)
(* of the two bytes of the byte-order mark.                                *)
(***************************************************************************)
Byte(half, ch) == [half |-> half, ch |-> ch]
BOM == <<Byte("raw", "FF"), Byte("raw", "FE")>>
LF == "\n"

\* str::as_bytes
encode_utf8(text) == [k \in 1..Len(text) |-> Byte("u8", text[k])]
\* for c in new_content.encode_utf16() { out.push(c as u8); out.push((c >> 8) as u8) }
encode_utf16_le(text) ==
    [k \in 1..(2 * Len(text)) |->
        Byte(IF k % 2 = 1 THEN "lo" ELSE "hi", text[(k + 1) \div 2])]

\* String::from_utf8: [ok, text]
from_utf8(bytes) ==
    IF \A k \in 1..Len(bytes) : bytes[k].half = "u8"
    THEN [ok |-> TRUE, text |-> [k \in 1..Len(bytes) |-> bytes[k].ch]]
    ELSE [ok |-> FALSE, text |-> <<>>]

\* u16::from_ne_bytes([a[0], a[1]]): the first byte is the low one on a
\* little-endian host and the high one on a big-endian host; a unit put
\* together the wrong way round is another character
from_ne_bytes(a0, a1, big_endian) ==
    IF a0.ch = a1.ch /\ a0.half = (IF big_endian THEN "hi" ELSE "lo")
                     /\ a1.half = (IF big_endian THEN "lo" ELSE "hi")
    THEN a0.ch
    ELSE "<" \o a0.half \o " " \o a0.ch \o "," \o a1.half \o " " \o a1.ch \o ">"
\* content_bytes[2..].chunks_exact(2).map(from_ne_bytes), String::from_utf16
from_utf16_ne(bytes, big_endian) ==
    [k \in 1..((Len(bytes) - 2) \div 2) |->
        from_ne_bytes(bytes[2 * k + 1], bytes[2 * k + 2], big_endian)]

\* content.split('\n'): the lines, a line being the characters between two
\* line feeds put together
RECURSIVE split_lines(_, _, _)
split_lines(text, k, line) ==
    IF k > Len(text) THEN <<line>>
    ELSE IF text[k] = LF THEN <<line>> \o split_lines(text, k + 1, "")
    ELSE split_lines(text, k + 1, line \o text[k])
\* link_args.join("\n")
RECURSIVE join_lines(_, _)
join_lines(lines, k) ==
    IF k > Len(lines) THEN <<>>
    ELSE (IF k > 1 THEN <<LF>> ELSE <<>>)
         \o (IF lines[k] = "" THEN <<>> ELSE <<lines[k]>>)
         \o join_lines(lines, k + 1)

\* filter_linker_args: the loop over the lines with its skip_next flag
RECURSIVE FilterFrom(_, _, _, _, _, _)
FilterNext_NeverWithNext(filtered, lines, k, rustc_ver, zig_version, target_info) ==
    filtered.args \o FilterFrom(lines, k + 1, FALSE, rustc_ver, zig_version, target_info)
FilterNext(filtered, lines, k, rustc_ver, zig_version, target_info) ==
    filtered.args
    \o FilterFrom(lines, k + 1, filtered.kind = "SkipWithNext", rustc_ver, zig_version,
                  target_info)
FilterFrom(lines, k, skip_next, rustc_ver, zig_version, target_info) ==
    IF k > Len(lines) THEN <<>>
    ELSE IF skip_next
    THEN FilterFrom(lines, k + 1, FALSE, rustc_ver, zig_version, target_info)
    ELSE FilterNext(filter_linker_arg(lines[k], rustc_ver, zig_version, target_info),
                    lines, k, rustc_ver, zig_version, target_info)
filter_linker_args(lines, rustc_ver, zig_version, target_info) ==
    FilterFrom(lines, 1, FALSE, rustc_ver, zig_version, target_info)

\* the lines process_linker_response_file writes: the filtered ones and what
\* it pushes after them
LinkArgsOf(link_args, zig_version, target_info) ==
    link_args
    \o (IF has_undefined_dynamic_lookup(link_args)
        THEN <<"-Wl,-undefined=dynamic_lookup">> ELSE <<>>)
    \o (IF is_macos(target_info) /\ should_add_libcharset(link_args, zig_version)
        THEN <<"-lcharset">> ELSE <<>>)
LinkArgs(text, rustc_ver, zig_version, target_info) ==
    LinkArgsOf(filter_linker_args(split_lines(text, 1, ""), rustc_ver, zig_version,
                                  target_info),
               zig_version, target_info)

Rewritten(bytes) == [result |-> "Ok", file |-> bytes]
Bailed(bytes, error) == [result |-> error, file |-> bytes]

\* process_linker_response_file on the bytes of the file: its result and the
\* bytes the file holds afterwards.  Indexing content_bytes[0..2] panics on
\* a file shorter than two bytes.
process_linker_response_file(bytes, rustc_ver, zig_version, target_info, big_endian) ==
    IF is_windows_msvc(target_info)
    THEN IF Len(bytes) < 2 THEN Bailed(bytes, "panic")
         ELSE IF SubSeq(bytes, 1, 2) # BOM THEN Bailed(bytes, "no utf16 BOM")
         ELSE Rewritten(BOM \o encode_utf16_le(join_lines(
                  LinkArgs(from_utf16_ne(bytes, big_endian), rustc_ver, zig_version,
                           target_info), 1)))
    ELSE IF ~from_utf8(bytes).ok THEN Bailed(bytes, "not valid utf8")
    ELSE Rewritten(encode_utf8(join_lines(
             LinkArgs(from_utf8(bytes).text, rustc_ver, zig_version, target_info), 1)))

\* the options a build passes to the wrapper, each with its operand
ArgItems == {<<"-undefined", "dynamic_lookup">>, <<"-undefined", "error">>,
             <<"-march=armv8-a+crypto">>, <<"-march=armv8-a">>,
             <<"-march=armv8.2-a+sve">>, <<"-march=i686">>, <<"-lgcc_s">>, <<"-lgcc_eh">>,
             <<"-Wl,-exported_symbols_list">>, <<"-lc">>, <<"-lm">>, <<"main.o">>}
RECURSIVE ItemSeqs(_)
ItemSeqs(n) ==
    IF n = 0 THEN {<<>>}
    ELSE ItemSeqs(n - 1) \cup {xs \o x : xs \in ItemSeqs(n - 1), x \in ArgItems}

\* the targets a wrapper script is baked for; "" is a zig cc run without
\* -target
FilterTargets == {"", "arm-unknown-linux-gnueabihf", "i686-unknown-linux-gnu",
                  "riscv64gc-unknown-linux-gnu", "s390x-unknown-linux-gnu",
                  "aarch64-unknown-linux-gnu", "x86_64-unknown-linux-musl",
                  "aarch64-unknown-linux-musl", "aarch64-apple-darwin",
                  "x86_64-pc-windows-gnu", "i686-pc-windows-gnu"}
Toolchains == {[zig |-> <<0, 10, 1>>, rustc |-> <<1, 58, 0>>],
               [zig |-> <<0, 13, 0>>, rustc |-> <<1, 70, 0>>],
               [zig |-> <<0, 16, 0>>, rustc |-> <<1, 80, 0>>]}

\* the arguments the wrapper script passes: the baked ones, then "$@"
BakedArgs(rust_target, tc) ==
    IF rust_target = "" THEN <<>> ELSE cc_args(rust_target, "", tc.zig, tc.rustc)

\* ExitStatus of a child: it exited with a code, or a signal ended it
NoChild == [kind |-> "None", code |-> 0]
Exited(code) == [kind |-> "Exited", code |-> code]
Signaled(signal) == [kind |-> "Signaled", code |-> signal]
ChildStatuses == {Exited(0), Exited(1), Exited(101), Signaled(9)}
\* status.success()
success(status) == status.kind = "Exited" /\ status.code = 0
\* status.code().unwrap_or(1)
ExitCode_AlwaysOne(status) == 1
ExitCode(status) == IF status.kind = "Exited" THEN status.code ELSE 1

\* the arguments of a `zig ar` run
ToolArgs == {<<"rcs", "libfoo.a", "main.o">>, <<"t", "libfoo.a">>, <<"--version">>}

FilterInitWith(rust_target, tc, baked, incoming) ==
    \E sdkroot \in (IF is_macos(AfterFirst(baked, "-target")) THEN BOOLEAN ELSE {FALSE}) :
        /\ cmd_args = baked \o incoming
        /\ new_cmd_args = <<>>
        /\ compiler = [pc |-> "filter", i |-> 1, skip_next_arg |-> FALSE,
                       rust_target |-> rust_target, baked |-> Len(baked),
                       target_info |-> AfterFirst(baked \o incoming, "-target"),
                       rustc_ver |-> tc.rustc, zig_version |-> tc.zig,
                       sdkroot |-> sdkroot, arg |-> "", filtered |-> Skip,
                       cmd |-> "cc", child |-> NoChild, exit_code |-> 0,
                       big_endian |-> FALSE, runs |-> 1, error |-> "",
                       file0 |-> <<>>, file1 |-> <<>>]
        /\ response_file = <<>>
\* Zig::execute: `zig cc` goes to execute_compiler, `zig ar` to execute_tool
FilterInit ==
    \/ \E rust_target \in FilterTargets, tc \in Toolchains, incoming \in ItemSeqs(MaxItems) :
           FilterInitWith(rust_target, tc, BakedArgs(rust_target, tc), incoming)
    \/ \E tc \in Toolchains, tool_args \in ToolArgs :
           /\ cmd_args = tool_args
           /\ new_cmd_args = <<>>
           /\ compiler = [pc |-> "tool", i |-> 1, skip_next_arg |-> FALSE,
                          rust_target |-> "", baked |-> 0, target_info |-> NoTarget,
                          rustc_ver |-> tc.rustc, zig_version |-> tc.zig,
                          sdkroot |-> FALSE, arg |-> "", filtered |-> Skip,
                          cmd |-> "ar", child |-> NoChild, exit_code |-> 0,
                          big_endian |-> FALSE, runs |-> 1, error |-> "",
                          file0 |-> <<>>, file1 |-> <<>>]
           /\ response_file = <<>>

Filtered(arg) ==
    filter_linker_arg(arg, compiler.rustc_ver, compiler.zig_version, compiler.target_info)

LoopWith(arg, filtered) ==
    /\ new_cmd_args' = new_cmd_args \o filtered.args
    /\ compiler' = [compiler EXCEPT !.i = @ + 1, !.arg = arg, !.filtered = filtered,
                                    !.skip_next_arg = (filtered.kind = "SkipWithNext")]

\* arg.starts_with('@') && arg.ends_with("linker-arguments")
IsResponseFile(arg) == starts_with(arg, "@") /\ ends_with(arg, "linker-arguments")

\* the turn of the loop for a response file: the token is kept, or the
\* error of process_linker_response_file ends execute_compiler
ResponseFileWith(arg, processed) ==
    /\ response_file' = processed.file
    /\ IF processed.result = "Ok"
       THEN LoopWith(arg, Keep(<<arg>>))
       ELSE /\ new_cmd_args' = new_cmd_args
            /\ compiler' = [compiler EXCEPT
                               !.arg = arg,
                               !.error = processed.result,
                               !.pc = IF processed.result = "panic"
                                      THEN "panicked" ELSE "failed"]

\* one turn of `for arg in cmd_args`
FilterArg ==
    /\ compiler.pc = "filter"
    /\ compiler.i <= Len(cmd_args)
    /\ IF compiler.skip_next_arg
       THEN /\ LoopWith(cmd_args[compiler.i], [kind |-> "Continue", args |-> <<>>])
            /\ UNCHANGED response_file
       ELSE IF IsResponseFile(cmd_args[compiler.i])
       THEN ResponseFileWith(cmd_args[compiler.i],
                process_linker_response_file(response_file, compiler.rustc_ver,
                    compiler.zig_version, compiler.target_info, compiler.big_endian))
       ELSE /\ LoopWith(cmd_args[compiler.i], Filtered(cmd_args[compiler.i]))
            /\ UNCHANGED response_file
    /\ UNCHANGED <<cmd_args, machoVars, targetVars, wrapperVars, envVars>>

\* after the loop: the arguments execute_compiler pushes before it spawns zig
PushExtraArgs ==
    /\ compiler.pc = "filter"
    /\ compiler.i > Len(cmd_args)
    /\ new_cmd_args' =
          new_cmd_args
          \o (IF is_mips32(compiler.target_info) THEN <<"-Wl,-z,notext">> ELSE <<>>)
          \o (IF has_undefined_dynamic_lookup(cmd_args)
              THEN <<"-Wl,-undefined=dynamic_lookup">> ELSE <<>>)
          \o (IF is_macos(compiler.target_info)
              THEN (IF should_add_libcharset(cmd_args, compiler.zig_version)
                    THEN <<"-lcharset">> ELSE <<>>)
                   \o macos_specific_args(compiler.sdkroot, compiler.zig_version)
              ELSE <<>>)
    /\ compiler' = [compiler EXCEPT !.pc = "spawn"]
    /\ UNCHANGED <<cmd_args, response_file, machoVars, targetVars, wrapperVars, envVars>>

\* execute_tool up to the spawn: the arguments are passed as they are
ExecuteTool ==
    /\ compiler.pc = "tool"
    /\ new_cmd_args' = cmd_args
    /\ compiler' = [compiler EXCEPT !.pc = "spawn"]
    /\ UNCHANGED <<cmd_args, response_file, machoVars, targetVars, wrapperVars, envVars>>

\* child.wait(), then process::exit(status.code().unwrap_or(1)) or Ok(())
WaitChild ==
    /\ compiler.pc = "spawn"
    /\ \E status \in ChildStatuses :
          compiler' = [compiler EXCEPT
                          !.child = status,
                          !.pc = IF success(status) THEN "returned" ELSE "exited",
                          !.exit_code = IF success(status) THEN 0 ELSE ExitCode(status)]
    /\ UNCHANGED <<cmd_args, new_cmd_args, response_file, machoVars, targetVars,
                   wrapperVars, envVars>>

InitFilter == MachOIdle /\ TargetIdle /\ WrapperIdle /\ EnvIdle /\ FilterInit
NextFilter == FilterArg \/ PushExtraArgs \/ ExecuteTool \/ WaitChild
SpecFilter == InitFilter /\ [][NextFilter]_vars

\* the lines rustc writes in a response file, in groups that belong together
LineItems == {<<"-Wl,-exported_symbols_list", "/tmp/list">>,
              <<"-Wl,--dynamic-list">>,
              <<"-Wl,-exported_symbols_list,/tmp/list">>,
              <<"-Wl,--dynamic-list,/tmp/list">>,
              <<"-undefined", "dynamic_lookup">>,
              <<"-march=armv8-a+crypto">>,
              <<"main.o">>}
RECURSIVE LineSeqs(_)
LineSeqs(n) ==
    IF n = 0 THEN {<<>>}
    ELSE LineSeqs(n - 1) \cup {xs \o x : xs \in LineSeqs(n - 1), x \in LineItems}

ResponseTargets == {"x86_64-unknown-linux-gnu", "aarch64-unknown-linux-gnu",
                    "aarch64-apple-darwin", "x86_64-pc-windows-msvc"}
ResponseToolchains == {tc \in Toolchains : tc.zig # <<0, 10, 1>>}
ResponseToken == "@/tmp/rustc/linker-arguments"

\* the bytes rustc wrote: UTF-16 with a byte-order mark for an MSVC linker,
\* UTF-8 otherwise; for an MSVC target also files that are not such a text
ResponseBytes(lines, msvc) ==
    IF msvc THEN BOM \o encode_utf16_le(join_lines(lines, 1))
    ELSE encode_utf8(join_lines(lines, 1))
ResponseFiles(msvc) ==
    {ResponseBytes(lines, msvc) : lines \in LineSeqs(MaxLineItems)}
    \cup (IF msvc
         THEN {<<>>, <<BOM[1]>>, encode_utf8(<<"main.o", LF>>)}
         ELSE {BOM \o encode_utf16_le(<<"main.o">>)})

ResponseInitWith(rust_target, tc, baked) ==
    \E bytes \in ResponseFiles(is_windows_msvc(AfterFirst(baked, "-target"))),
       big_endian \in (IF is_windows_msvc(AfterFirst(baked, "-target"))
                       THEN BOOLEAN ELSE {FALSE}) :
        /\ cmd_args = baked \o <<ResponseToken>>
        /\ new_cmd_args = <<>>
        /\ response_file = bytes
        /\ compiler = [pc |-> "filter", i |-> 1, skip_next_arg |-> FALSE,
                       rust_target |-> rust_target, baked |-> Len(baked),
                       target_info |-> AfterFirst(baked, "-target"),
                       rustc_ver |-> tc.rustc, zig_version |-> tc.zig,
                       sdkroot |-> FALSE, arg |-> "", filtered |-> Skip,
                       cmd |-> "cc", child |-> NoChild, exit_code |-> 0,
                       big_endian |-> big_endian, runs |-> 1, error |-> "",
                       file0 |-> bytes, file1 |-> <<>>]
ResponseInit ==
    \E rust_target \in ResponseTargets, tc \in ResponseToolchains :
        ResponseInitWith(rust_target, tc, BakedArgs(rust_target, tc))

\* the build runs the wrapper again with the same arguments; file1 keeps
\* what the first run left in the response file
InvokeAgain ==
    /\ compiler.pc = "returned"
    /\ compiler.runs < MaxInvocations
    /\ new_cmd_args' = <<>>
    /\ compiler' = [compiler EXCEPT
                       !.pc = "filter", !.i = 1, !.skip_next_arg = FALSE, !.arg = "",
                       !.filtered = Skip, !.child = NoChild, !.exit_code = 0,
                       !.runs = @ + 1,
                       !.file1 = IF compiler.runs = 1 THEN response_file ELSE @]
    /\ UNCHANGED <<cmd_args, response_file, machoVars, targetVars, wrapperVars, envVars>>

InitResponse == MachOIdle /\ TargetIdle /\ WrapperIdle /\ EnvIdle /\ ResponseInit
NextResponse == FilterArg \/ PushExtraArgs \/ WaitChild \/ InvokeAgain
SpecResponse == InitResponse /\ [][NextResponse]_vars

(***************************************************************************)
(* Claims about the wrapper materializer                                   *)
(***************************************************************************)
\* the three wrapper scripts of a process: zigcc, zigcxx, zigranlib
Script(p, k) == Plan(p).files[Len(Plan(p).files) - 3 + k]
CcScript(p) == Script(p, 1)
CxxScript(p) == Script(p, 2)
PastFiles(p) ==
    /\ procs[p].runs >= 1
    /\ procs[p].pc \in {"exists", "read_link", "remove", "symlink", "done"}
SameFlags == Plan("p1").cc_args_str = Plan("p2").cc_args_str

\* C11: two different baked flag strings for the same target give different
\* wrapper script file names, so once two processes with different flags
\* have both written their zigcc / zigcxx scripts, each script still holds
\* the bytes its process gave it: neither has overwritten the other's.
C11_DistinctFlagsDistinctNames ==
    (~SameFlags /\ PastFiles("p1") /\ PastFiles("p2")) =>
        \A p \in Procs :
            /\ cache[CcScript(p).path].bytes = CcScript(p).content
            /\ cache[CxxScript(p).path].bytes = CxxScript(p).content

\* C12: when one process applies prepare_zig_linker a second time with the
\* same inputs and nobody else touches the cache directory, the second
\* application writes no file (so every file keeps its bytes and its
\* modification time).
C12_SecondRunWritesNothing ==
    \A p \in Procs :
        (/\ procs[p].runs >= 2
         /\ procs[p].pc = "done"
         /\ \A q \in Procs \ {p} : procs[q].runs = 0)
        => procs[p].written = {}

\* C13 as stated: two processes with the same baked flag string for the same
\* target name the same script files with the same bytes, and once both have
\* written or skipped them the files hold those bytes whoever wrote last.
C13_SameFlagsSameScript ==
    SameFlags =>
        \A k \in 1..3 :
            /\ Script("p1", k).path = Script("p2", k).path
            /\ Script("p1", k).content = Script("p2", k).content
            /\ (PastFiles("p1") /\ PastFiles("p2"))
               => cache[Script("p1", k).path].bytes = Script("p1", k).content

\* the process is between the first read and the last write of its files
Writing(p) == procs[p].pc \in {"file", "write", "write_all"}
SameInstallation ==
    /\ procs["p1"].cfg.current_exe = procs["p2"].cfg.current_exe
    /\ procs["p1"].cfg.zig_version = procs["p2"].cfg.zig_version

\* C13 amended: two processes that run the same executable with the same zig
\* version and compute the same baked flag string for the same target name
\* the same script files with the same bytes; each writes exactly those
\* bytes or finds them present, and once both are past the scripts the files
\* hold those bytes whoever wrote last (while a process is still writing, a
\* file it has cut to length 0 is not yet final).
C13_SameInstallationSameScript ==
    (SameFlags /\ SameInstallation) =>
        \A k \in 1..3 :
            /\ Script("p1", k).path = Script("p2", k).path
            /\ Script("p1", k).content = Script("p2", k).content
            /\ (\E p \in Procs : PastFiles(p)) /\ (\A p \in Procs : ~Writing(p))
               => cache[Script("p1", k).path].bytes = Script("p1", k).content

\* both processes are done with the same flags and installation; one wrote
\* the zigcc script and the other found it present
C13_Witness ==
    /\ SameFlags /\ SameInstallation
    /\ procs["p1"].pc = "done" /\ procs["p2"].pc = "done"
    /\ procs["p1"].runs = 1 /\ procs["p2"].runs = 1
    /\ CcScript("p1").path \in procs["p1"].written
    /\ CcScript("p2").path \notin procs["p2"].written

\* C14: every run of the materializer completes successfully, whatever the
\* interleaving with the other process.
C14_BothSucceed ==
    \A p \in Procs : procs[p].pc = "done" => procs[p].result = "Ok"

\* write_linker_wrapper has returned in process p for its k-th script
Returned(p, k) ==
    \/ procs[p].runs >= 2
    \/ PastFiles(p)
    \/ /\ procs[p].runs >= 1
       /\ Writing(p)
       /\ procs[p].item > Len(Plan(p).files) - 3 + k

\* C28: once a materializer call has returned for a wrapper script, whoever
\* opens the script finds the complete content some process gave it, never
\* an empty or a cut file, whatever the other processes are doing.
C28_ReaderSeesCompleteScript ==
    \A p \in Procs, k \in 1..3 :
        Returned(p, k) =>
            /\ Script(p, k).path \in DOMAIN cache
            /\ \E q \in Procs :
                  /\ Script(q, k).path = Script(p, k).path
                  /\ cache[Script(p, k).path].bytes = Script(q, k).content

\* C29: after prepare_zig_linker has returned Ok, the links ar and lib exist
\* in the cache directory and refer to the executable of the process that
\* ran it, whatever was there under these names before.
C29_LinksReferToCurrentExe ==
    \A p \in Procs :
        procs[p].pc = "done" /\ procs[p].result = "Ok" =>
            \A k \in 1..Len(Plan(p).links) :
                /\ Plan(p).links[k] \in DOMAIN cache
                /\ cache[Plan(p).links[k]] = LinkEntry(procs[p].cfg.current_exe)

(***************************************************************************)
(* Claims about the toolchain environment applier                          *)
(***************************************************************************)
\* the value a caller gave n is what the child process will see
CallerWins(n) ==
    IF n \in DOMAIN applier.cmd0 THEN cmd_env[n] = applier.cmd0[n]
    ELSE n \in DOMAIN applier.parent0 =>
            /\ n \notin DOMAIN cmd_env
            /\ parent_env[n] = applier.parent0[n]

\* C15 as stated: every variable that had a value in the parent environment
\* or on the child command before the applier ran still has that value, and
\* nothing is staged over a parent value.
C15_ExistingValueWins ==
    \A n \in DOMAIN applier.cmd0 \cup DOMAIN applier.parent0 : CallerWins(n)

IfMissingNames ==
    {"CARGO_ZIGBUILD_RUSTC_VERSION", applier.names.cc, applier.names.cxx,
     applier.names.linker, applier.names.ranlib, applier.names.ar}

\* C15 amended: the variables assigned through add_env_if_missing (the rustc
\* version and the per-target CC_, CXX_, CARGO_TARGET_.._LINKER, RANLIB_ and
\* AR_) keep a value set in the parent environment or staged on the command;
\* CMAKE_TOOLCHAIN_FILE_<t> and PKG_CONFIG_SYSROOT_DIR are not staged when
\* the parent environment sets them; an existing
\* BINDGEN_EXTRA_CLANG_ARGS_<t> is extended by the zig cc options.
C15_IfMissingValueWins ==
    /\ \A n \in IfMissingNames : CallerWins(n)
    /\ \A n \in {applier.names.cmake, "PKG_CONFIG_SYSROOT_DIR"} :
          n \in DOMAIN applier.parent0 => n \notin DOMAIN cmd_env
    /\ (applier.pc = "done" /\ applier.names.bindgen \in DOMAIN applier.parent0)
       => parent_env[applier.names.bindgen]
          = applier.parent0[applier.names.bindgen] \o " escaped_options"

\* the applier has finished for a target whose CC_ variable the parent
\* environment had set: CC_ is not staged, CXX_ is
C15_Witness ==
    /\ applier.pc = "done"
    /\ applier.names.cc \in DOMAIN applier.parent0
    /\ applier.names.cc \notin DOMAIN cmd_env
    /\ applier.names.cxx \in DOMAIN cmd_env
    /\ cmd_env[applier.names.cxx] = zig_wrapper.cxx

\* the triple of each requested target with '-' replaced by '_', as it is
\* and upper-cased, written out
LowerEnvTarget ==
    [raw \in RawTargets |->
        CASE raw = "x86_64-unknown-linux-gnu.2.17" -> "x86_64_unknown_linux_gnu"
          [] raw = "x86_64-pc-windows-gnu" -> "x86_64_pc_windows_gnu"
          [] raw = "x86_64-pc-windows-msvc" -> "x86_64_pc_windows_msvc"
          [] raw = "aarch64-apple-darwin" -> "aarch64_apple_darwin"
          [] raw = "wasm32-wasip1" -> "wasm32_wasip1"]
UpperEnvTarget ==
    [raw \in RawTargets |->
        CASE raw = "x86_64-unknown-linux-gnu.2.17" -> "X86_64_UNKNOWN_LINUX_GNU"
          [] raw = "x86_64-pc-windows-gnu" -> "X86_64_PC_WINDOWS_GNU"
          [] raw = "x86_64-pc-windows-msvc" -> "X86_64_PC_WINDOWS_MSVC"
          [] raw = "aarch64-apple-darwin" -> "AARCH64_APPLE_DARWIN"
          [] raw = "wasm32-wasip1" -> "WASM32_WASIP1"]

\* the compiler, linker, archiver and symbol-index variables the applier has
\* staged
StagedToolNames ==
    {n \in DOMAIN cmd_env \ DOMAIN applier.cmd0 :
        \/ starts_with(n, "CC_") \/ starts_with(n, "CXX_")
        \/ starts_with(n, "RANLIB_") \/ starts_with(n, "AR_")
        \/ ends_with(n, "_LINKER")}
PastTools == applier.pc \notin {"rustc_version", "cc", "ranlib"}
NoPreset == applier.cmd0 = <<>> /\ applier.parent0 = SystemEnv

\* C16 as stated: every per-target compiler, linker, archiver and
\* symbol-index variable is named with the upper-cased triple.
C16_NamesUpperCased ==
    \A n \in StagedToolNames :
        n \in {"CC_" \o UpperEnvTarget[applier.raw_target],
               "CXX_" \o UpperEnvTarget[applier.raw_target],
               "CARGO_TARGET_" \o UpperEnvTarget[applier.raw_target] \o "_LINKER",
               "RANLIB_" \o UpperEnvTarget[applier.raw_target],
               "AR_" \o UpperEnvTarget[applier.raw_target]}

\* C16 amended: CC_, CXX_, RANLIB_ and AR_ are named with the triple (ABI
\* suffix removed) with '-' replaced by '_' and its case kept; only
\* CARGO_TARGET_<T>_LINKER has the triple upper-cased; the linker variable is
\* not produced for wasm targets and AR_ only when zig ar is enabled.
C16_NamesOfTarget ==
    /\ \A n \in StagedToolNames :
          n \in {"CC_" \o LowerEnvTarget[applier.raw_target],
                 "CXX_" \o LowerEnvTarget[applier.raw_target],
                 "CARGO_TARGET_" \o UpperEnvTarget[applier.raw_target] \o "_LINKER",
                 "RANLIB_" \o LowerEnvTarget[applier.raw_target],
                 "AR_" \o LowerEnvTarget[applier.raw_target]}
    /\ (PastTools /\ NoPreset) =>
          /\ {"CC_" \o LowerEnvTarget[applier.raw_target],
              "CXX_" \o LowerEnvTarget[applier.raw_target],
              "RANLIB_" \o LowerEnvTarget[applier.raw_target]} \subseteq StagedToolNames
          /\ ("CARGO_TARGET_" \o UpperEnvTarget[applier.raw_target] \o "_LINKER"
                 \in StagedToolNames) <=> ~contains(applier.raw_target, "wasm")
          /\ ("AR_" \o LowerEnvTarget[applier.raw_target] \in StagedToolNames)
                 <=> applier.enable_zig_ar

\* the applier has staged all five variables for the target with an ABI
\* suffix
C16_Witness ==
    /\ PastTools /\ NoPreset
    /\ applier.raw_target = "x86_64-unknown-linux-gnu.2.17"
    /\ StagedToolNames = {"CC_x86_64_unknown_linux_gnu", "CXX_x86_64_unknown_linux_gnu",
                          "CARGO_TARGET_X86_64_UNKNOWN_LINUX_GNU_LINKER",
                          "RANLIB_x86_64_unknown_linux_gnu", "AR_x86_64_unknown_linux_gnu"}


(***************************************************************************)
(* Claims about the argument filter of execute_compiler                    *)
(***************************************************************************)
DynamicLookupFlag == "-Wl,-undefined=dynamic_lookup"
Occurrences(list, word) == Cardinality({k \in 1..Len(list) : list[k] = word})
\* the original list holds -undefined immediately followed by dynamic_lookup
RequestsDynamicLookup ==
    \E k \in 1..(Len(cmd_args) - 1) :
        cmd_args[k] = "-undefined" /\ cmd_args[k + 1] = "dynamic_lookup"
\* the argument the loop has just looked at went through filter_linker_arg
JustFiltered(prefix) ==
    /\ compiler.filtered.kind # "Continue"
    /\ starts_with(compiler.arg, prefix)
\* the wrapper script was baked with a CPU baseline
McpuBaked == \E k \in 1..compiler.baked : starts_with(cmd_args[k], "-mcpu=")

\* C17: when zig is spawned, a list that holds the pair -undefined
\* dynamic_lookup anywhere has got -Wl,-undefined=dynamic_lookup exactly once
\* and as its last argument, and a list without the pair has not got it.
C17_AppendedOnceAtEnd ==
    compiler.pc = "spawn" =>
        IF RequestsDynamicLookup
        THEN /\ Occurrences(new_cmd_args, DynamicLookupFlag) = 1
             /\ new_cmd_args[Len(new_cmd_args)] = DynamicLookupFlag
        ELSE Occurrences(new_cmd_args, DynamicLookupFlag) = 0

\* C18: for a target baked with a CPU baseline, every filtered argument that
\* starts with -march= is dropped, except that RISC-V gets the generic
\* baseline and 64-bit ARM gets a -mcpu= rewrite.
C18_MarchDroppedWhenBaselineBaked ==
    McpuBaked /\ JustFiltered("-march=") =>
        IF is_riscv64(compiler.target_info)
        THEN compiler.filtered = Keep(<<"-march=generic_rv64">>)
        ELSE IF is_riscv32(compiler.target_info)
        THEN compiler.filtered = Keep(<<"-march=generic_rv32">>)
        ELSE IF is_aarch64(compiler.target_info)
        THEN /\ compiler.filtered.kind = "Keep"
             /\ starts_with(compiler.filtered.args[1], "-mcpu=")
        ELSE compiler.filtered = Skip

ArmHardFloat == compiler.rust_target = "arm-unknown-linux-gnueabihf"

\* C19: arm-unknown-linux-gnueabihf without a CPU override resolves to the
\* architecture arm, is baked as -target arm-linux-gnueabihf with a -mcpu=
\* baseline that contains vfp2, and no argument starting with -march= gets
\* through the filter for it.
C19_ArmHardFloatDropsMarch ==
    ArmHardFloat =>
        /\ ParseTriple(compiler.rust_target).architecture = "arm"
        /\ compiler.target_info = SomeTarget("arm-linux-gnueabihf")
        /\ \E k \in 1..compiler.baked :
              starts_with(cmd_args[k], "-mcpu=") /\ contains(cmd_args[k], "vfp2")
        /\ JustFiltered("-march=") => compiler.filtered = Skip
        /\ \A k \in 1..Len(new_cmd_args) : ~starts_with(new_cmd_args[k], "-march=")
C19_Witness ==
    /\ ArmHardFloat
    /\ compiler.pc = "spawn"
    /\ compiler.zig_version = <<0, 13, 0>>
    /\ Len(cmd_args) = compiler.baked + 2
    /\ starts_with(cmd_args[compiler.baked + 1], "-march=")
    /\ cmd_args[compiler.baked + 2] = "main.o"
    /\ new_cmd_args[Len(new_cmd_args)] = "main.o"

\* C20: for every target, an absent one included, and every zig and rustc
\* version, filter_linker_arg turns -lgcc_s into exactly -lunwind, and
\* execute_compiler passes -lunwind in its place.
C20_GccSBecomesUnwind ==
    /\ Filtered("-lgcc_s") = Keep(<<"-lunwind">>)
    /\ compiler.arg = "-lgcc_s" /\ compiler.filtered.kind # "Continue" =>
          /\ compiler.filtered = Keep(<<"-lunwind">>)
          /\ compiler.pc = "filter" => new_cmd_args[Len(new_cmd_args)] = "-lunwind"
    /\ \A k \in 1..Len(new_cmd_args) : new_cmd_args[k] # "-lgcc_s"
C20_Witness ==
    /\ ~compiler.target_info.some
    /\ compiler.pc = "filter"
    /\ compiler.arg = "-lgcc_s"
    /\ compiler.filtered.kind = "Keep"
    /\ new_cmd_args = <<"main.o", "-lunwind">>


\* C21: for a musl target, filter_linker_arg drops -lc and emits nothing in
\* its place, and an argument no rule matches (-lm) is emitted once, unchanged.
MuslTarget ==
    /\ compiler.rust_target # ""
    /\ ParseTriple(compiler.rust_target).environment \in MuslEnvironments
C21_MuslDropsLc ==
    MuslTarget =>
        /\ Filtered("-lc") = Skip
        /\ Filtered("-lm") = Keep(<<"-lm">>)
        /\ JustFiltered("-lc") /\ compiler.arg = "-lc" /\ compiler.pc = "filter" =>
              /\ compiler.filtered = Skip
              /\ Occurrences(new_cmd_args, "-lc") = 0
        /\ JustFiltered("-lm") /\ compiler.arg = "-lm" /\ compiler.pc = "filter" =>
              /\ compiler.filtered = Keep(<<"-lm">>)
              /\ new_cmd_args[Len(new_cmd_args)] = "-lm"
C21_Witness ==
    /\ compiler.rust_target = "x86_64-unknown-linux-musl"
    /\ compiler.target_info = SomeTarget("x86_64-linux-musl")
    /\ compiler.pc = "spawn"
    /\ SubSeq(cmd_args, compiler.baked + 1, Len(cmd_args)) = <<"-lc", "-lm">>
    /\ new_cmd_args = SubSeq(cmd_args, 1, compiler.baked) \o <<"-lm">>


\* what the -march=armv.. arguments of ArgItems carry from their first '+' on
MarchFeatures ==
    [arg \in {"-march=armv8-a+crypto", "-march=armv8-a", "-march=armv8.2-a+sve"} |->
        IF arg = "-march=armv8-a+crypto" THEN "+crypto"
        ELSE IF arg = "-march=armv8.2-a+sve" THEN "+sve"
        ELSE ""]
Aarch64Target ==
    /\ compiler.rust_target # ""
    /\ ParseTriple(compiler.rust_target).architecture = "aarch64"
AppleTarget == ParseTriple(compiler.rust_target).operating_system = "Darwin"

\* C26: for a 64-bit ARM target, -march=armv.. becomes -mcpu=<base><features>
\* with base generic, or apple_m1 for macOS, and the features from the first
\* '+' on; -Xassembler and the original argument follow exactly when the
\* features hold +crypto.
C26_MarchBecomesMcpu ==
    Aarch64Target /\ JustFiltered("-march=armv") =>
        /\ compiler.arg \in DOMAIN MarchFeatures
        /\ compiler.filtered.kind = "Keep"
        /\ compiler.filtered.args[1] =
              "-mcpu=" \o (IF AppleTarget THEN "apple_m1" ELSE "generic")
              \o MarchFeatures[compiler.arg]
        /\ IF compiler.arg = "-march=armv8-a+crypto"
           THEN compiler.filtered.args =
                   <<compiler.filtered.args[1], "-Xassembler", compiler.arg>>
           ELSE Len(compiler.filtered.args) = 1
        /\ compiler.pc = "filter" =>
              SubSeq(new_cmd_args, Len(new_cmd_args) - Len(compiler.filtered.args) + 1,
                     Len(new_cmd_args)) = compiler.filtered.args
C26_Witness ==
    /\ compiler.rust_target = "aarch64-apple-darwin"
    /\ compiler.pc = "filter"
    /\ SubSeq(cmd_args, compiler.baked + 1, Len(cmd_args))
          = <<"-march=armv8.2-a+sve", "-march=armv8-a+crypto">>
    /\ SubSeq(new_cmd_args, compiler.baked + 1, Len(new_cmd_args))
          = <<"-mcpu=apple_m1+sve", "-mcpu=apple_m1+crypto", "-Xassembler",
              "-march=armv8-a+crypto">>

WindowsGnuTarget ==
    /\ compiler.rust_target # ""
    /\ ParseTriple(compiler.rust_target).operating_system = "Windows"
    /\ ParseTriple(compiler.rust_target).environment = "gnu"

\* C27: -lgcc_eh becomes -lc++ exactly for a Windows-GNU target with zig
\* below 0.14 or the architecture i686; in every other case it is kept as
\* it is.
C27_GccEhBecomesCxx ==
    compiler.arg = "-lgcc_eh" /\ JustFiltered("-lgcc_eh") =>
        compiler.filtered =
            IF /\ WindowsGnuTarget
               /\ \/ VersionLt(compiler.zig_version, <<0, 14, 0>>)
                  \/ ParseTriple(compiler.rust_target).architecture = "i686"
            THEN Keep(<<"-lc++">>)
            ELSE Keep(<<"-lgcc_eh">>)
C27_Witness ==
    /\ compiler.rust_target = "i686-pc-windows-gnu"
    /\ compiler.zig_version = <<0, 16, 0>>
    /\ compiler.arg = "-lgcc_eh"
    /\ compiler.pc = "filter"
    /\ new_cmd_args[Len(new_cmd_args)] = "-lc++"


\* C24 as stated: the program never ends with a non-zero code other than
\* the code its child exited with.
C24_ExitCodeIsTheChilds ==
    compiler.pc = "exited" =>
        compiler.child.kind = "Exited" /\ compiler.exit_code = compiler.child.code

\* C24: a child that exits with a non-zero code c makes the program exit
\* with c at once, a child that exits with 0 makes the operation return Ok,
\* and a child ended by a signal, which has no code, makes the program exit
\* with 1; in none of these cases is there a further step.
C24_ExitCodeOrOne ==
    /\ compiler.pc = "returned" => compiler.child = Exited(0)
    /\ compiler.pc = "exited" =>
          /\ compiler.child.kind = "Exited" =>
                compiler.child.code # 0 /\ compiler.exit_code = compiler.child.code
          /\ compiler.child.kind = "Signaled" => compiler.exit_code = 1
          /\ compiler.child.kind # "None"
    /\ compiler.pc \in {"returned", "exited"} =>
          ~ENABLED (FilterArg \/ PushExtraArgs \/ ExecuteTool \/ WaitChild)
C24_Witness ==
    /\ compiler.pc = "exited"
    /\ compiler.cmd = "ar"
    /\ compiler.child = Exited(101)
    /\ compiler.exit_code = 101
    /\ new_cmd_args = <<"rcs", "libfoo.a", "main.o">>


(***************************************************************************)
(* Claims about linker response files                                      *)
(***************************************************************************)
MsvcTarget == ParseTriple(compiler.rust_target).environment = "msvc"
\* the text of the file rustc wrote, read in the encoding of the target
OriginalText ==
    IF MsvcTarget THEN from_utf16_ne(compiler.file0, FALSE)
    ELSE from_utf8(compiler.file0).text
OriginalLines == split_lines(OriginalText, 1, "")
\* the file rustc wrote is a text in the encoding of the target
WellEncoded ==
    IF MsvcTarget
    THEN /\ Len(compiler.file0) >= 2
         /\ SubSeq(compiler.file0, 1, 2) = BOM
         /\ compiler.file0 = BOM \o encode_utf16_le(OriginalText)
    ELSE from_utf8(compiler.file0).ok
FilteredLines ==
    filter_linker_args(OriginalLines, compiler.rustc_ver, compiler.zig_version,
                       compiler.target_info)
\* the loop has dealt with the response file token in run n
TokenDone(n) ==
    /\ compiler.runs = n
    /\ compiler.arg = ResponseToken
    /\ compiler.pc \in {"filter", "spawn", "returned", "exited", "failed", "panicked"}

\* C22: the response file token is passed on as it is, and the file then
\* holds, in the encoding rustc wrote it in, exactly the lines the filter
\* rules make of its lines.
C22_FileHoldsFilteredLines ==
    WellEncoded /\ TokenDone(1) =>
        /\ compiler.pc \notin {"failed", "panicked"}
        /\ compiler.filtered = Keep(<<ResponseToken>>)
        /\ response_file = ResponseBytes(FilteredLines, MsvcTarget)

\* C23: for an MSVC target, a response file that does not begin with the
\* byte-order mark ends execute_compiler with the encoding error, never with
\* a panic, and the file is left as it was.
C23_MissingBomIsAnError ==
    /\ MsvcTarget
    /\ Len(compiler.file0) < 2 \/ SubSeq(compiler.file0, 1, 2) # BOM
    /\ TokenDone(1)
    => /\ compiler.pc = "failed"
       /\ compiler.error = "no utf16 BOM"
       /\ response_file = compiler.file0

TwoToken(arg) == arg \in {"-Wl,-exported_symbols_list", "-Wl,--dynamic-list"}
CommaForm(arg) ==
    \/ starts_with(arg, "-Wl,-exported_symbols_list,")
    \/ starts_with(arg, "-Wl,--dynamic-list,")
\* line k is a two-token flag that is not itself the operand of one
RECURSIVE TakesNext(_, _)
TakesNext(lines, k) ==
    k >= 1 /\ TwoToken(lines[k]) /\ ~TakesNext(lines, k - 1)
Dropped(lines, k) ==
    TakesNext(lines, k) \/ TakesNext(lines, k - 1) \/ CommaForm(lines[k])
\* what the lines from k on that are not dropped become, in order
RECURSIVE Remaining(_, _)
Remaining(lines, k) ==
    IF k > Len(lines) THEN <<>>
    ELSE (IF Dropped(lines, k) THEN <<>>
          ELSE filter_linker_arg(lines[k], compiler.rustc_ver, compiler.zig_version,
                                 compiler.target_info).args)
         \o Remaining(lines, k + 1)
OldZig == VersionLt(compiler.zig_version, <<0, 16, 0>>)

\* C25: with zig below 0.16, filter_linker_args drops each two-token flag
\* that is not itself an operand together with the one line after it, drops
\* a comma form alone, and passes the other lines on in their order; a flag
\* in last position is dropped; from 0.16 on these lines are all kept as
\* they are.
C25_TwoTokenFlagsTakeOne ==
    TokenDone(1) /\ compiler.pc = "filter" /\ WellEncoded =>
        /\ OldZig => FilteredLines = Remaining(OriginalLines, 1)
        /\ ~OldZig =>
              /\ \A k \in 1..Len(OriginalLines) :
                    TwoToken(OriginalLines[k]) \/ CommaForm(OriginalLines[k]) =>
                       Filtered(OriginalLines[k]) = Keep(<<OriginalLines[k]>>)
              /\ Len(FilteredLines) >= Len(OriginalLines)
        /\ ~compiler.big_endian =>
              response_file = ResponseBytes(
                  LinkArgsOf(FilteredLines, compiler.zig_version, compiler.target_info),
                  MsvcTarget)
C25_Witness ==
    /\ compiler.rust_target = "aarch64-apple-darwin"
    /\ OldZig
    /\ compiler.pc = "spawn"
    /\ compiler.file0 = encode_utf8(<<"-Wl,--dynamic-list", LF, "-Wl,-exported_symbols_list",
                                      LF, "/tmp/list">>)
    /\ response_file = encode_utf8(<<"/tmp/list">>)

\* C30: a second run of the wrapper on the same response file leaves the
\* file as the first run left it.
C30_SecondRunLeavesFile ==
    TokenDone(2) => response_file = compiler.file1

====
